---- MODULE Spec2Model ----
(***************************************************************************)
(* Model of the e-Physio (Clinic System) <-> GoHighLevel (CRM) bridge.     *)
(*                                                                         *)
(* Thirteen specifications share the module's variables:                        *)
(*   Spec       the Sync-State Repository (ContactSync / AppointmentSync)  *)
(*              under incremental sync cycles, dispatcher commands,        *)
(*              webhook events and changes of the Clinic dataset;          *)
(*   SpecRL     the RateLimiter shared by the dispatcher's worker threads; *)
(*   SpecRetry  one outbound CRM write with its retry loop;                *)
(*   SpecPhone  the two phone normalizers on one number;                   *)
(*   SpecClinic one operation of the Clinic client (401, login, replay);   *)
(*   SpecAuth   the stored credentials of the two upstream APIs;           *)
(*   SpecSched  the two periodic sync tasks under Celery beat and worker;  *)
(*   SpecPayload  the CRM contact payload built from one ContactSync row;  *)
(*   SpecTime   the start and end times written to AppointmentSync rows;   *)
(*   SpecBulk   the bulk update / bulk create transactions of concurrent   *)
(*              sync cycles, statement by statement, and a reader;         *)
(*   SpecPool   one run of a dispatcher command: its thread pool, the two  *)
(*              locks and the statistics (SpecPoolFair adds the fairness   *)
(*              of the thread scheduler);                                  *)
(*   SpecSource the `source` column of the rows under webhook events,      *)
(*              incremental cycles and the two sync_ephysio_* commands;    *)
(*   SpecList   incremental cycles over fetched lists of any content       *)
(*              (records without id, the same id more than once).          *)
(***************************************************************************)
EXTENDS Integers, Sequences, FiniteSets, TLC

VARIABLES
    contacts,     \* ContactSync table: sequence of rows, primary key = index
    appts,        \* AppointmentSync table: sequence of rows, primary key = index
    patients,     \* Clinic System: patient id -> [present, phone]
    events,       \* Clinic System: event id -> patient id (NULL = no such event)
    crmContacts,  \* CRM: ids of the contacts that exist in the CRM
    crmAppts,     \* CRM: ids of the appointments that exist in the CRM
    ghlAuth,      \* GHLAuthCredentials: "none" | "ok"
    out,          \* what the most recent handler did (result, lists, CRM requests)
    stableP,      \* a patient cycle succeeded and the Clinic patients are unchanged since
    stableA,      \* an appointment cycle succeeded and the Clinic events are unchanged since
    linked,       \* patients whose row a cycle created and linked, data unchanged since
    rl,           \* RateLimiter object: [last_called, index, lock]
    now,          \* time.time(), in ticks (TicksPerInterval ticks = min_interval)
    wk,           \* dispatcher worker threads: worker -> [pc, wake]
    todo,         \* tasks of the thread pool no worker has started yet
    adm,          \* times at which wait() let a caller through, in order
    rq,           \* one outbound CRM write: [fn, pc, attempt, resps, result, slept]
    px,           \* one phone number taken through the normalizers
    cl,           \* one Clinic operation: [op, stage, phase, log, result]
    ephAuth,      \* EPhysioAuth table: sequence of rows [id, token]
    ghlCreds,     \* GHLAuthCredentials table: rows [location_id, access_token, refresh_token]
    issued,       \* number of tokens the CRM has handed out
    lastWritten,  \* primary key of the GHLAuthCredentials row written last (0: none)
    authOut,      \* what the most recent credential operation returned
    sch,          \* Celery: [pool, round, queue, phase of each periodic sync task]
    pl,           \* one CRM contact payload: [phone, birth_date, payload, done]
    tm,           \* start_time / end_time of the AppointmentSync rows written: [rows, skipped]
    bk,           \* bulk persistence: [table, cyc (per cycle), seen, fresh]
    dp,           \* one dispatcher run: [cmd, workers, total, main, item, th, locks, stats]
    sc,           \* `source` of the rows: table -> Clinic id -> [present, source, born]
    fl            \* cycles over arbitrary fetched lists: [contacts, appts, crm, cycles, res]

repoVars == <<contacts, appts, patients, events, crmContacts, crmAppts, ghlAuth,
              out, stableP, stableA, linked>>
rlVars == <<rl, now, wk, todo, adm>>
credVars == <<ghlCreds, issued, lastWritten, authOut>>
moreVars == <<dp, sc, fl>>
extVars == <<sch, pl, tm, bk, moreVars>>
auxVars == <<px, cl, ephAuth, credVars, extVars>>
baseVars == <<repoVars, rlVars, rq, px, cl, ephAuth, credVars>>
vars == <<contacts, appts, patients, events, crmContacts, crmAppts, ghlAuth,
          out, stableP, stableA, linked, rl, now, wk, todo, adm, rq, px, cl, ephAuth, ghlCreds, issued, lastWritten,
          authOut, sch, pl, tm, bk, dp, sc, fl>>

----------------------------------------------------------------------------
(* Bounds of the model.                                                    *)

MaxPatients == 2
MaxGhl == 1
MaxEvents == 1
MaxGhlAppts == 1
Rate == 2               \* max_calls_per_second of the RateLimiter
TicksPerInterval == 2   \* clock resolution: ticks in one min_interval
Workers == 2            \* threads of the pool
Items == 4              \* instances submitted to the pool
MaxTime == 12           \* the clock stops here
NatLen == 9             \* digits of a national number
MaxLogins == 4          \* logins the Clinic System accepts
MaxIssued == 3          \* tokens the CRM hands out
MaxLocations == 2       \* CRM locations an OAuth exchange can be for
MaxRounds == 3          \* rounds Celery beat schedules
MaxPool == 2            \* processes of the Celery worker pool
MaxRawLen == 2          \* characters drawn freely inside a raw phone number
MaxTimeRows == 2        \* AppointmentSync rows whose times are followed
MaxHour == 2            \* latest instant of an appointment, in hours since the epoch
MaxBulkIds == 2         \* Clinic ids the concurrent cycles persist
MaxBulkCycles == 2      \* sync cycles that run at the same time
MaxPoolWorkers == 2     \* --workers of a dispatcher command
MaxPoolItems == 3       \* rows a dispatcher command submits to its pool
MaxSourceIds == 2       \* Clinic ids whose rows' source is followed
MaxFetched == 2         \* records in one fetched list
MaxListCycles == 2      \* cycles run over fetched lists

NULL == 0

PatientIds == 1..MaxPatients
GhlIds == 1..MaxGhl
EventIds == 1..MaxEvents
GhlApptIds == 1..MaxGhlAppts

(* Phone numbers are strings, modelled as sequences of characters.         *)
NoPhone == << >>
PhoneIntl == <<"+", "4", "1", "7", "9">>
PhoneLocal == <<"0", "7", "9">>
ClinicPhones == {PhoneIntl}
WebhookPhones == {PhoneLocal, NoPhone}

Digits == {"0", "1", "2", "3", "4", "5", "6", "7", "8", "9"}

----------------------------------------------------------------------------
(* Helpers on sequences.                                                   *)

Range(s) == {s[i] : i \in 1..Len(s)}

StartsWith(s, p) == Len(s) >= Len(p) /\ SubSeq(s, 1, Len(p)) = p

Drop(s, n) == SubSeq(s, n + 1, Len(s))

Min(S) == CHOOSE x \in S : \A y \in S : x <= y

Max(S) == CHOOSE x \in S : \A y \in S : x >= y

RECURSIVE SortedSeq(_)
SortedSeq(S) == IF S = {} THEN << >> ELSE <<Min(S)>> \o SortedSeq(S \ {Min(S)})

----------------------------------------------------------------------------
(* ephysio.utils.normalize_phone: the Clinic-facing normalizer used by the *)
(* fallback matcher.                                                       *)

normalize_phone_no_trunk(phone) ==
    IF phone = NoPhone THEN NoPhone
    ELSE LET p1 == SelectSeq(phone, LAMBDA c : c \in Digits \cup {"+"})
             p2 == IF StartsWith(p1, <<"+">>) THEN Drop(p1, 1) ELSE p1
         IN  IF StartsWith(p2, <<"4", "1">>) THEN Drop(p2, 2) ELSE p2

normalize_phone(phone) ==
    IF phone = NoPhone THEN NoPhone
    ELSE LET p1 == SelectSeq(phone, LAMBDA c : c \in Digits \cup {"+"})
             p2 == IF StartsWith(p1, <<"+">>) THEN Drop(p1, 1) ELSE p1
             p3 == IF StartsWith(p2, <<"4", "1">>) THEN Drop(p2, 2) ELSE p2
         IN  IF StartsWith(p3, <<"0">>) THEN p3 ELSE <<"0">> \o p3

(* ephysio.services.patients.find_patient_by_phone: the first active        *)
(* patient whose normalized phone equals the normalized target; NULL when   *)
(* the phone is empty or no patient matches.                                *)
find_patient_by_phone(phone, ps) ==
    IF phone = NoPhone THEN NULL
    ELSE LET is == {i \in 1..Len(ps) : normalize_phone(ps[i].phone) = normalize_phone(phone)}
         IN  IF is = {} THEN NULL ELSE ps[Min(is)].id

----------------------------------------------------------------------------
(* services.contacts.validate_and_clean_phone: the CRM-facing normalizer;  *)
(* NoPhone stands for None.                                                *)

isdigit(str) == str # << >> /\ \A i \in 1..Len(str) : str[i] \in Digits

validate_and_clean_phone(phone) ==
    IF phone = NoPhone THEN NoPhone
    ELSE LET p == SelectSeq(phone, LAMBDA c : c \notin {" ", "-", "(", ")"})
         IN  IF StartsWith(p, <<"+">>)
             THEN IF Len(p) > 1 /\ isdigit(Drop(p, 1)) THEN p ELSE NoPhone
             ELSE IF StartsWith(p, <<"0", "0">>) THEN <<"+">> \o Drop(p, 2)
             ELSE IF StartsWith(p, <<"4", "1">>) /\ Len(p) >= 10 THEN <<"+">> \o p
             ELSE IF StartsWith(p, <<"0">>) /\ Len(p) >= 10
             THEN <<"+", "4", "1">> \o Drop(p, 1)
             ELSE IF isdigit(p) /\ Len(p) >= 10 THEN p
             ELSE NoPhone

(* The inputs of the phone specification: national numbers (no trunk "0")  *)
(* over a few digits, and 79 123 45 67.                                    *)
PhoneDigits == {"0", "1", "4"}

ExampleNational == <<"7", "9", "1", "2", "3", "4", "5", "6", "7">>

Nationals ==
    {n \in [1..NatLen -> PhoneDigits] : n[1] # "0"} \cup {ExampleNational}

(* "+41" and the national digits, written in groups ("+41 79 123 45 67")   *)
(* or without spaces.                                                      *)
International(nat, spaced) ==
    IF spaced
    THEN <<"+", "4", "1", " ">> \o SubSeq(nat, 1, 2) \o <<" ">> \o SubSeq(nat, 3, 5)
             \o <<" ">> \o SubSeq(nat, 6, 7) \o <<" ">> \o SubSeq(nat, 8, Len(nat))
    ELSE <<"+", "4", "1">> \o nat

Local(nat) == <<"0">> \o nat

(* The three written forms of one Swiss number, by their prefix.            *)
Forms == {"+41", "0041", "0"}

Written(form, nat) ==
    CASE form = "+41" -> <<"+", "4", "1">> \o nat
      [] form = "0041" -> <<"0", "0", "4", "1">> \o nat
      [] form = "0" -> Local(nat)

(* The Clinic-facing and then the CRM-facing normalizer on the             *)
(* international form, the CRM-facing one on the local form.               *)
NormalizeBoth ==
    /\ ~px.done
    /\ px' = [px EXCEPT !.done = TRUE,
                        !.viaClinic = validate_and_clean_phone(
                                          normalize_phone(International(px.nat, px.spaced))),
                        !.direct = validate_and_clean_phone(Local(px.nat)),
                        !.norm = [f \in Forms |-> normalize_phone(Written(f, px.nat))],
                        !.found = [sq \in Forms \X Forms |->
                                     find_patient_by_phone(
                                         Written(sq[2], px.nat),
                                         <<[id |-> 1, phone |-> Written(sq[1], px.nat)]>>)]]

----------------------------------------------------------------------------
(* The Sync-State Repository.                                              *)

ContactRow(eph, ghl, phone, source) ==
    [eph |-> eph, ghl |-> ghl, phone |-> phone, source |-> source]

ApptRow(ephA, ghlA, eph, ghl, source) ==
    [ephA |-> ephA, ghlA |-> ghlA, eph |-> eph, ghl |-> ghl, source |-> source]

(* unique=True on ContactSync.ghl_contact_id and .ephysio_patient_id: the   *)
(* database refuses a write of `row` at primary key pk (pk = 0: an insert)  *)
(* when another row holds the same non-null value.                          *)
ContactConflictOpen(rows, pk, row) == FALSE

ContactConflict(rows, pk, row) ==
    \E k \in 1..Len(rows) :
        /\ k # pk
        /\ \/ (row.eph # NULL /\ rows[k].eph = row.eph)
           \/ (row.ghl # NULL /\ rows[k].ghl = row.ghl)

(* unique=True on AppointmentSync.ghl_appointment_id and                    *)
(* .ephysio_appointment_id; ephysio_patient_id is NOT NULL.                 *)
ApptConflict(rows, pk, row) ==
    \/ row.eph = NULL
    \/ \E k \in 1..Len(rows) :
        /\ k # pk
        /\ \/ (row.ephA # NULL /\ rows[k].ephA = row.ephA)
           \/ (row.ghlA # NULL /\ rows[k].ghlA = row.ghlA)

(* existing_contacts / contact_sync_map: a dict keyed by                    *)
(* str(ephysio_patient_id), built in primary-key order (a later row         *)
(* overwrites an earlier one); 0 when the key is absent.                    *)
ContactByEph(rows, p) ==
    LET ks == {k \in 1..Len(rows) : rows[k].eph # NULL /\ rows[k].eph = p}
    IN  IF ks = {} THEN 0 ELSE Max(ks)

ApptByEphA(rows, e) ==
    LET ks == {k \in 1..Len(rows) : rows[k].ephA # NULL /\ rows[k].ephA = e}
    IN  IF ks = {} THEN 0 ELSE Max(ks)

(* QuerySet.filter(...).first(): the lowest primary key, 0 when none.       *)
First(ks) == IF ks = {} THEN 0 ELSE Min(ks)

ContactByGhl(rows, g) == First({k \in 1..Len(rows) : rows[k].ghl = g})

ApptByGhlA(rows, g) == First({k \in 1..Len(rows) : rows[k].ghlA = g})

----------------------------------------------------------------------------
(* The Clinic System seen through its API.                                  *)

(* get_active_patients(): the list of active patients.                      *)
PatientList ==
    LET ids == SortedSeq({p \in PatientIds : patients[p].present})
    IN  [i \in 1..Len(ids) |-> [id |-> ids[i], phone |-> patients[ids[i]].phone]]

(* get_ephysio_appointments(): the list of events in the window.            *)
EventList ==
    LET ids == SortedSeq({e \in EventIds : events[e] # NULL})
    IN  [i \in 1..Len(ids) |-> [id |-> ids[i], patientId |-> events[ids[i]]]]

(* The id the upstream system gives to a record it creates.                 *)
FreshId(universe, used) == IF universe \ used = {} THEN NULL ELSE Min(universe \ used)

(* get_ghl_auth(): the credentials row exists and has a location_id.        *)
get_ghl_auth == ghlAuth = "ok"

(* What the most recent handler reports: the result's status, the Clinic   *)
(* ids classified create / update, the rows inserted, the dispatch list    *)
(* (primary keys) and the requests issued; rerun = the handler started     *)
(* after a successful cycle of its kind with the Clinic data unchanged      *)
(* since; arg = the CRM id a webhook event carries; matched = the rows a    *)
(* webhook's phone designates (see MatchedRows).                            *)
Out(op, status, rerun, created, updated, inserted, toSync, calls, arg, matched) ==
    [op |-> op, status |-> status, rerun |-> rerun, created |-> created,
     updated |-> updated, inserted |-> inserted, toSync |-> toSync, calls |-> calls,
     arg |-> arg, matched |-> matched, fault |-> "none", type |-> "none", waits |-> 0]

NoOut(op, status) == Out(op, status, FALSE, << >>, << >>, 0, << >>, << >>, NULL, {})

(* The result of a cycle whose `except Exception` caught the failure of the *)
(* statement `fault`: {'status': 'error', 'message': ..., 'timestamp': ...}. *)
Aborted(op, fault) == [NoOut(op, "error") EXCEPT !.fault = fault]

(* One outbound CRM request: the row it is for, the Clinic id and the CRM   *)
(* contact id the instance carries, the outcome, the remote id returned,    *)
(* and how the caller counts the item.                                      *)
Call(kind, pk, key, contact, res, id, st) ==
    [kind |-> kind, pk |-> pk, key |-> key, contact |-> contact, res |-> res, id |-> id,
     st |-> st]

(* The outcomes of one CRM create request.                                  *)
CrmOutcomes == {"created", "error"}

(* A dispatcher command also tells a duplicate apart (classified 'skipped'). *)
ItemOutcomes == {"created", "duplicate", "error"}

(* Outcome vectors the CRM can produce: it never gives out more new ids     *)
(* than the model's universe holds.                                         *)
OutcomeVectors(n, universe, used) ==
    {o \in [1..n -> CrmOutcomes] :
        Cardinality({i \in 1..n : o[i] = "created"}) <= Cardinality(universe \ used)}

(* The entries of its list a dispatch loop attempts when the CRM answers    *)
(* outs: the body of the `for` is a try / except Exception that logs, so    *)
(* the loop goes through the whole list.                                    *)
AttemptedUntilFailure(list, outs) ==
    LET bad == {i \in 1..Len(list) : outs[i] # "created"}
    IN  IF bad = {} THEN list ELSE SubSeq(list, 1, Min(bad))

Attempted(list, outs) == list

----------------------------------------------------------------------------
(* tasks.sync_patients_incremental                                          *)

(* Diff: a fetched patient is an update when existing_contacts has its id.  *)
PatientExistsNever(rows, id) == FALSE

PatientExists(rows, id) == ContactByEph(rows, id) # 0

PatientsToUpdate(rows, ps) == SelectSeq(ps, LAMBDA p : PatientExists(rows, p.id))

PatientsToCreate(rows, ps) == SelectSeq(ps, LAMBDA p : ~PatientExists(rows, p.id))

(* The in-memory instance of primary key k after the loop: the last fetched *)
(* record of its patient wins; source stays 'ghl' for webhook-created rows. *)
UpdatedContact(rows, upd, k) ==
    LET is == {i \in 1..Len(upd) : ContactByEph(rows, upd[i].id) = k}
    IN  IF is = {} THEN rows[k]
        ELSE [rows[k] EXCEPT !.phone = upd[Max(is)].phone,
                             !.source = IF rows[k].source = "ghl" THEN "ghl" ELSE "ephysio"]

(* bulk_update(contacts_to_update, update_fields): ids are not among the    *)
(* update fields.                                                           *)
BulkUpdateContacts(rows, upd) == [k \in 1..Len(rows) |-> UpdatedContact(rows, upd, k)]

(* bulk_create(..., ignore_conflicts=True): a row that violates a unique    *)
(* constraint is silently left out.                                         *)
RECURSIVE BulkCreateContacts(_, _)
BulkCreateContacts(rows, news) ==
    IF news = << >> THEN rows
    ELSE BulkCreateContacts(
            IF ContactConflict(rows, 0, Head(news)) THEN rows ELSE Append(rows, Head(news)),
            Tail(news))

NewContacts(crt) ==
    [i \in 1..Len(crt) |-> ContactRow(crt[i].id, NULL, crt[i].phone, "ephysio")]

(* Gap fill: the updated instances without ghl_contact_id (one entry per    *)
(* fetched record), then the rows re-read from the table for the created    *)
(* ids with ghl_contact_id IS NULL.                                         *)
ContactsToSync(rows0, rows2, upd, crt) ==
    LET old == SelectSeq([i \in 1..Len(upd) |-> ContactByEph(rows0, upd[i].id)],
                         LAMBDA k : rows0[k].ghl = NULL)
        ids == {crt[i].id : i \in 1..Len(crt)}
        new == SortedSeq({k \in 1..Len(rows2) : rows2[k].eph \in ids /\ rows2[k].ghl = NULL})
    IN  old \o new

(* contact.save(update_fields=['ghl_contact_id']): IntegrityError (caught   *)
(* by the caller's except) when the id is held by another row.              *)
SaveGhlContactIdDropped(rows, pk, x) == rows

SaveGhlContactId(rows, pk, x) ==
    LET row == [rows[pk] EXCEPT !.ghl = x]
    IN  IF ContactConflict(rows, pk, row) THEN rows ELSE [rows EXCEPT ![pk] = row]

(* The dispatch loop of the task: create_ghl_contact for every list entry,  *)
(* whatever the outcome of the entries before it.                           *)
RECURSIVE DispatchContacts(_, _, _, _, _, _)
DispatchContacts(rows, crm, list, outs, i, calls) ==
    IF i > Len(list) THEN [rows |-> rows, crm |-> crm, calls |-> calls]
    ELSE LET pk == list[i]
             x == IF outs[i] = "created" THEN FreshId(GhlIds, crm) ELSE NULL
             c == Call("createContact", pk, rows[pk].eph, NULL, outs[i], x,
                       IF outs[i] = "created" /\ SaveGhlContactId(rows, pk, x)[pk] # rows[pk]
                       THEN "synced" ELSE "failed")
         IN  IF outs[i] = "created"
             THEN DispatchContacts(SaveGhlContactId(rows, pk, x), crm \cup {x},
                                   list, outs, i + 1, Append(calls, c))
             ELSE DispatchContacts(rows, crm, list, outs, i + 1, Append(calls, c))

(* get_active_patients() raises (an exception of requests, or             *)
(* raise_for_status on the answer to the first request or to the replay     *)
(* after a 401): the first statement of the try block, so nothing has been  *)
(* written when the except clause builds the result.                        *)
SyncPatientsFetchFailsLate ==
    /\ contacts' = BulkUpdateContacts(contacts, PatientsToUpdate(contacts, PatientList))
    /\ out' = Aborted("patients", "fetch")
    /\ UNCHANGED <<appts, patients, events, crmContacts, crmAppts, ghlAuth,
                   stableP, stableA, linked>>

SyncPatientsFetchFails ==
    /\ out' = Aborted("patients", "fetch")
    /\ UNCHANGED <<contacts, appts, patients, events, crmContacts, crmAppts, ghlAuth,
                   stableP, stableA, linked>>

(* The statements of a cycle that write the table in a transaction.         *)
PersistStages == {"bulk_update", "bulk_create"}

(* The database raises in bulk_update (run only when there is something to  *)
(* update) or in bulk_create (run only when there is something to create):  *)
(* each has its own transaction.atomic() block, so the failing one is       *)
(* rolled back and what the earlier one committed stays.                    *)
SyncPatientsPersistFails(stage) ==
    LET ps == PatientList
        upd == PatientsToUpdate(contacts, ps)
        crt == PatientsToCreate(contacts, ps)
        rows1 == BulkUpdateContacts(contacts, upd)
    IN  /\ stage = "bulk_update" => upd # << >>
        /\ stage = "bulk_create" => crt # << >>
        /\ contacts' = IF stage = "bulk_create" THEN rows1 ELSE contacts
        /\ out' = Aborted("patients", stage)
        /\ UNCHANGED <<appts, patients, events, crmContacts, crmAppts, ghlAuth,
                       stableP, stableA, linked>>

SyncPatientsIncremental ==
    LET ps == PatientList
        upd == PatientsToUpdate(contacts, ps)
        crt == PatientsToCreate(contacts, ps)
        rows1 == BulkUpdateContacts(contacts, upd)
        rows2 == BulkCreateContacts(rows1, NewContacts(crt))
        list == ContactsToSync(contacts, rows2, upd, crt)
        todo1 == IF get_ghl_auth THEN list ELSE << >>
    IN  \E outs \in OutcomeVectors(Len(todo1), GhlIds, crmContacts) :
          LET d == DispatchContacts(rows2, crmContacts, Attempted(todo1, outs), outs, 1, << >>)
              ok == {d.calls[j].key : j \in {j \in 1..Len(d.calls) : d.calls[j].res = "created"}}
          IN  /\ contacts' = d.rows
              /\ crmContacts' = d.crm
              /\ out' = Out("patients", "success", stableP,
                            [i \in 1..Len(crt) |-> crt[i].id],
                            [i \in 1..Len(upd) |-> upd[i].id],
                            Len(rows2) - Len(contacts), list, d.calls, NULL, {})
              /\ stableP' = TRUE
              /\ linked' = linked \cup (ok \cap {crt[i].id : i \in 1..Len(crt)})
              /\ UNCHANGED <<appts, patients, events, crmAppts, ghlAuth, stableA>>

----------------------------------------------------------------------------
(* services.appointments.create_ghl_appointment: whether the POST is sent   *)
(* for this instance (credentials present, ghl_contact_id present).         *)
SendsAppointmentUnguarded(inst) == get_ghl_auth

SendsAppointment(inst) == get_ghl_auth /\ inst.ghl # NULL

(* create_ghl_appointment(appt_sync): res is the outcome of the POST when   *)
(* it is sent; the CRM of the model answers an error once its id universe   *)
(* is used up.                                                              *)
create_ghl_appointment(inst, crm, res) ==
    LET sent == SendsAppointment(inst)
        z == FreshId(GhlApptIds, crm)
        res1 == IF ~sent \/ (res = "created" /\ z = NULL) THEN "error" ELSE res
    IN  [sent |-> sent, res |-> res1, id |-> IF res1 = "created" THEN z ELSE NULL]

----------------------------------------------------------------------------
(* tasks.sync_appointments_incremental                                      *)

(* The ghl_contact_id the loop resolves for a fetched event: that of the    *)
(* ContactSync row of its patient, None when there is no row or no id.      *)
ResolveContact(crows, p) ==
    IF ContactByEph(crows, p) # 0 THEN crows[ContactByEph(crows, p)].ghl ELSE NULL

EventExistsNever(rows, id) == FALSE

EventExists(rows, id) == ApptByEphA(rows, id) # 0

EventsToUpdate(rows, es) == SelectSeq(es, LAMBDA e : EventExists(rows, e.id))

EventsToCreate(rows, es) == SelectSeq(es, LAMBDA e : ~EventExists(rows, e.id))

UpdatedApptStale(rows, crows, upd, k) == rows[k]

UpdatedAppt(rows, crows, upd, k) ==
    LET is == {i \in 1..Len(upd) : ApptByEphA(rows, upd[i].id) = k}
    IN  IF is = {} THEN rows[k]
        ELSE [rows[k] EXCEPT !.eph = upd[Max(is)].patientId,
                             !.ghl = ResolveContact(crows, upd[Max(is)].patientId),
                             !.source = IF rows[k].source = "ghl" THEN "ghl" ELSE "ephysio"]

BulkUpdateAppts(rows, crows, upd) == [k \in 1..Len(rows) |-> UpdatedAppt(rows, crows, upd, k)]

RECURSIVE BulkCreateAppts(_, _)
BulkCreateAppts(rows, news) ==
    IF news = << >> THEN rows
    ELSE BulkCreateAppts(
            IF ApptConflict(rows, 0, Head(news)) THEN rows ELSE Append(rows, Head(news)),
            Tail(news))

NewAppts(crows, crt) ==
    [i \in 1..Len(crt) |->
        ApptRow(crt[i].id, NULL, crt[i].patientId, ResolveContact(crows, crt[i].patientId),
                "ephysio")]

(* Gap fill: the updated instances without ghl_appointment_id and with a    *)
(* resolved ghl_contact_id, then the rows re-read for the created ids with  *)
(* ghl_appointment_id IS NULL and ghl_contact_id IS NOT NULL.               *)
ApptsToSync(rows0, rows1, rows2, upd, crt) ==
    LET old == SelectSeq([i \in 1..Len(upd) |-> ApptByEphA(rows0, upd[i].id)],
                         LAMBDA k : rows0[k].ghlA = NULL /\ rows1[k].ghl # NULL)
        ids == {crt[i].id : i \in 1..Len(crt)}
        new == SortedSeq({k \in 1..Len(rows2) :
                            rows2[k].ephA \in ids /\ rows2[k].ghlA = NULL /\ rows2[k].ghl # NULL})
    IN  old \o new

(* appt_sync.save(update_fields=['ghl_appointment_id'])                     *)
SaveGhlApptId(rows, pk, z) ==
    LET row == [rows[pk] EXCEPT !.ghlA = z]
    IN  IF ApptConflict(rows, pk, row) THEN rows ELSE [rows EXCEPT ![pk] = row]

(* The dispatch loop: an instance without ghl_contact_id is skipped, the    *)
(* others go to create_ghl_appointment.                                     *)
RECURSIVE DispatchAppts(_, _, _, _, _, _)
DispatchAppts(rows, crm, list, outs, i, calls) ==
    IF i > Len(list) THEN [rows |-> rows, crm |-> crm, calls |-> calls]
    ELSE LET pk == list[i]
             r == create_ghl_appointment(rows[pk], crm, outs[i])
             rows1 == IF r.res = "created" THEN SaveGhlApptId(rows, pk, r.id) ELSE rows
             c == Call("createAppointment", pk, rows[pk].ephA, rows[pk].ghl, r.res, r.id,
                       IF r.res = "created" /\ rows1[pk] # rows[pk] THEN "synced" ELSE "failed")
         IN  IF rows[pk].ghl = NULL
             THEN DispatchAppts(rows, crm, list, outs, i + 1, calls)
             ELSE DispatchAppts(rows1, IF r.res = "created" THEN crm \cup {r.id} ELSE crm,
                                list, outs, i + 1,
                                IF r.sent THEN Append(calls, c) ELSE calls)

SyncAppointmentsFetchFails ==
    /\ out' = Aborted("appointments", "fetch")
    /\ UNCHANGED <<contacts, appts, patients, events, crmContacts, crmAppts, ghlAuth,
                   stableP, stableA, linked>>

SyncAppointmentsPersistFails(stage) ==
    LET es == EventList
        upd == EventsToUpdate(appts, es)
        crt == EventsToCreate(appts, es)
        rows1 == BulkUpdateAppts(appts, contacts, upd)
    IN  /\ stage = "bulk_update" => upd # << >>
        /\ stage = "bulk_create" => crt # << >>
        /\ appts' = IF stage = "bulk_create" THEN rows1 ELSE appts
        /\ out' = Aborted("appointments", stage)
        /\ UNCHANGED <<contacts, patients, events, crmContacts, crmAppts, ghlAuth,
                       stableP, stableA, linked>>

SyncAppointmentsIncremental ==
    LET es == EventList
        upd == EventsToUpdate(appts, es)
        crt == EventsToCreate(appts, es)
        rows1 == BulkUpdateAppts(appts, contacts, upd)
        rows2 == BulkCreateAppts(rows1, NewAppts(contacts, crt))
        list == ApptsToSync(appts, rows1, rows2, upd, crt)
        todo1 == IF get_ghl_auth THEN list ELSE << >>
    IN  \E outs \in OutcomeVectors(Len(todo1), GhlApptIds, crmAppts) :
          LET d == DispatchAppts(rows2, crmAppts, Attempted(todo1, outs), outs, 1, << >>)
          IN  /\ appts' = d.rows
              /\ crmAppts' = d.crm
              /\ out' = Out("appointments", "success", stableA,
                            [i \in 1..Len(crt) |-> crt[i].id],
                            [i \in 1..Len(upd) |-> upd[i].id],
                            Len(rows2) - Len(appts), list, d.calls, NULL, {})
              /\ stableA' = TRUE
              /\ UNCHANGED <<contacts, patients, events, crmContacts, ghlAuth,
                             stableP, linked>>

----------------------------------------------------------------------------
(* views.handle_contact_event with patients.sync_ghl_contact_to_ephysio     *)

(* The rows the spec's fallback match designates for a webhook phone: the   *)
(* Clinic-sourced rows without ghl_contact_id whose phone normalizes to     *)
(* the same string.                                                         *)
MatchedRows(rows, phone) ==
    {k \in 1..Len(rows) :
        /\ phone # NoPhone
        /\ rows[k].source = "ephysio"
        /\ rows[k].ghl = NULL
        /\ normalize_phone(rows[k].phone) = normalize_phone(phone)}

(* The first half of handle_contact_event: the row with this                *)
(* ghl_contact_id gets the event's phone, or a new row is created.          *)
ContactEventRows(rows, g, phone) ==
    IF ContactByGhl(rows, g) # 0
    THEN [rows EXCEPT ![ContactByGhl(rows, g)].phone = phone]
    ELSE Append(rows, ContactRow(NULL, g, phone, "ghl"))

(* sync_obj.ephysio_patient_id = <id>; sync_obj.save(): IntegrityError      *)
(* (not caught by the view) when another row holds the id.                  *)
LinkPatient(rows, pk, id) == [rows EXCEPT ![pk].eph = id]

(* g is a contact of the CRM: one it already has, or one a CRM user has     *)
(* just created (the CRM gives it its next id).  clinic = what the Clinic   *)
(* System answers: "ok", "fetch_fails" (the patient list request raises)    *)
(* or "create_fails" (createPatient raises).                                *)
HandleContactEvent(g, phone, clinic) ==
    LET rowsA == ContactEventRows(contacts, g, phone)
        pk == IF ContactByGhl(contacts, g) # 0 THEN ContactByGhl(contacts, g) ELSE Len(rowsA)
        fetches == phone # NoPhone
        found == find_patient_by_phone(phone, PatientList)
        fresh == FreshId(PatientIds, {p \in PatientIds : patients[p].present})
        base == Out("contact_event", "exception", FALSE, << >>,
                    IF ContactByGhl(contacts, g) # 0 THEN <<ContactByGhl(contacts, g)>> ELSE << >>,
                    Len(rowsA) - Len(contacts), << >>, << >>, g, MatchedRows(contacts, phone))
    IN  /\ g \in crmContacts \cup {FreshId(GhlIds, crmContacts)}
        /\ crmContacts' = crmContacts \cup {g}
        /\ UNCHANGED <<appts, events, crmAppts, ghlAuth, stableA>>
        /\ IF fetches /\ clinic = "fetch_fails"
           THEN /\ contacts' = rowsA
                /\ out' = base
                /\ UNCHANGED <<patients, stableP, linked>>
           ELSE IF found # NULL
           THEN \* the patient exists in the Clinic System: link the row to it
                /\ clinic = "ok"
                /\ IF ContactConflict(rowsA, pk, LinkPatient(rowsA, pk, found)[pk])
                   THEN contacts' = rowsA /\ out' = base
                   ELSE /\ contacts' = LinkPatient(rowsA, pk, found)
                        /\ out' = [base EXCEPT !.status = "updated"]
                /\ UNCHANGED <<patients, stableP, linked>>
           ELSE IF clinic = "create_fails" \/ fresh = NULL
           THEN /\ clinic # "ok"
                /\ contacts' = rowsA
                /\ out' = [base EXCEPT !.calls = <<Call("createPatient", pk, NULL, g, "error", NULL, "failed")>>]
                /\ UNCHANGED <<patients, stableP, linked>>
           ELSE \* createPatient succeeded: the Clinic System has a new patient
                /\ clinic = "ok"
                /\ patients' = [patients EXCEPT ![fresh] = [present |-> TRUE, phone |-> phone]]
                /\ stableP' = FALSE
                /\ linked' = {}
                /\ IF ContactConflict(rowsA, pk, LinkPatient(rowsA, pk, fresh)[pk])
                   THEN /\ contacts' = rowsA
                        /\ out' = [base EXCEPT
                                      !.calls = <<Call("createPatient", pk, fresh, g, "created", fresh, "created")>>]
                   ELSE /\ contacts' = LinkPatient(rowsA, pk, fresh)
                        /\ out' = [base EXCEPT
                                      !.status = "created",
                                      !.calls = <<Call("createPatient", pk, fresh, g, "created", fresh, "created")>>]

----------------------------------------------------------------------------
(* views.handle_appointment_event with sync_ghl_appointment_to_ephysio_create *)

(* z is an appointment of the CRM (one it has, or its next id), g the       *)
(* contact it is for; clinic = "ok" or "create_fails" (no invoice, or the   *)
(* createEvent request raises: the view's except swallows it).              *)
HandleAppointmentEvent(z, g, clinic) ==
    LET k == ContactByGhl(contacts, g)
        row == ApptRow(NULL, z, contacts[k].eph, g, "ghl")
        rowsA == Append(appts, row)
        pk == Len(rowsA)
        e == FreshId(EventIds, {x \in EventIds : events[x] # NULL})
        linkedRow == [row EXCEPT !.ephA = e]
        base == Out("appointment_event", "error", FALSE, << >>, << >>, 0, << >>, << >>, z, {})
    IN  /\ z \in crmAppts \cup {FreshId(GhlApptIds, crmAppts)}
        /\ g \in crmContacts
        /\ crmAppts' = crmAppts \cup {z}
        /\ UNCHANGED <<contacts, patients, crmContacts, ghlAuth, stableP, linked>>
        /\ IF k = 0
           THEN \* "Patient not synced yet"
                /\ clinic = "ok"
                /\ out' = base
                /\ UNCHANGED <<appts, events, stableA>>
           ELSE IF ApptByGhlA(appts, z) # 0
           THEN \* "already exists"
                /\ clinic = "ok"
                /\ out' = [base EXCEPT !.status = "exists"]
                /\ UNCHANGED <<appts, events, stableA>>
           ELSE IF ApptConflict(appts, 0, row)
           THEN \* AppointmentSync.objects.create raises IntegrityError
                /\ clinic = "ok"
                /\ out' = [base EXCEPT !.status = "exception"]
                /\ UNCHANGED <<appts, events, stableA>>
           ELSE IF clinic = "create_fails" \/ e = NULL
           THEN /\ clinic # "ok"
                /\ appts' = rowsA
                /\ out' = [base EXCEPT !.status = "created", !.inserted = 1,
                             !.calls = <<Call("createEvent", pk, NULL, g, "error", NULL, "failed")>>]
                /\ UNCHANGED <<events, stableA>>
           ELSE /\ clinic = "ok"
                /\ events' = [events EXCEPT ![e] = row.eph]
                /\ stableA' = FALSE
                /\ appts' = IF ApptConflict(rowsA, pk, linkedRow) THEN rowsA
                            ELSE [rowsA EXCEPT ![pk] = linkedRow]
                /\ out' = [base EXCEPT !.status = "created", !.inserted = 1,
                             !.calls = <<Call("createEvent", pk, e, g, "created", e, "created")>>]

----------------------------------------------------------------------------
(* views.ghl_webhook for the POSTs it does not hand to a handler            *)

RoutedTypes == {"ContactCreate", "ContactUpdate", "AppointmentCreate", "AppointmentUpdate"}

(* The `type` of the events of the model that no handler takes: none, and   *)
(* two types the view does not know.                                        *)
UnroutedTypes == {"", "ContactDelete", "OpportunityCreate"}

(* The JSON the view answers: {"error": "Missing event type"} with status   *)
(* 400, or {"status": "ignored"} with status 200.                           *)
ghl_webhook_status_strict(type) == "missing_type"

ghl_webhook_status(type) == IF type = "" THEN "missing_type" ELSE "ignored"

GhlWebhookUnrouted(type) ==
    /\ type \notin RoutedTypes
    /\ out' = [NoOut("webhook", ghl_webhook_status(type)) EXCEPT !.type = type]
    /\ UNCHANGED <<contacts, appts, patients, events, crmContacts, crmAppts, ghlAuth,
                   stableP, stableA, linked>>

----------------------------------------------------------------------------
(* management command sync_contacts_to_ghl                                  *)

SourceFilters == {"ephysio", "ghl", "all"}

(* The orders in which the worker threads can take the instances of S.      *)
Perms(S) ==
    {f \in [1..Cardinality(S) -> S] : \A i, j \in 1..Cardinality(S) : f[i] = f[j] => i = j}

(* contacts_to_sync: source filter, ghl_contact_id IS NULL.                 *)
ContactsWithoutGhl(rows, f) ==
    {k \in 1..Len(rows) : (f = "all" \/ rows[k].source = f) /\ rows[k].ghl = NULL}

(* The other row the duplicate check of sync_contact finds: same phone,     *)
(* ghl_contact_id set, another primary key; 0 when none.                    *)
ExistingByPhone(rows, pk) ==
    IF rows[pk].phone = NoPhone THEN 0
    ELSE First({k \in 1..Len(rows) :
                  rows[k].phone = rows[pk].phone /\ rows[k].ghl # NULL /\ k # pk})

(* sync_contact for the instances in the order the workers take them: each  *)
(* one's duplicate check, CRM request and save.  The CRM of the model       *)
(* answers an error once its id universe is used up.                        *)
RECURSIVE SyncContactItems(_, _, _, _, _, _)
SyncContactItems(rows, crm, order, outs, i, calls) ==
    IF i > Len(order) THEN [rows |-> rows, crm |-> crm, calls |-> calls]
    ELSE LET pk == order[i]
             k == ExistingByPhone(rows, pk)
             x == FreshId(GhlIds, crm)
         IN  IF k # 0
             THEN \* update_ghl_contact(existing.ghl_contact_id), then take that id over
                  LET rows1 == IF outs[i] = "created"
                               THEN SaveGhlContactId(rows, pk, rows[k].ghl) ELSE rows
                      st == IF outs[i] = "created" /\ rows1[pk] # rows[pk] THEN "updated" ELSE "error"
                      c == Call("updateContact", pk, rows[pk].eph, rows[k].ghl,
                                IF outs[i] = "created" THEN "updated" ELSE "error", NULL, st)
                  IN  SyncContactItems(rows1, crm, order, outs, i + 1, Append(calls, c))
             ELSE \* create_ghl_contact
                  LET res == IF outs[i] = "created" /\ x = NULL THEN "error" ELSE outs[i]
                      rows1 == IF res = "created" THEN SaveGhlContactId(rows, pk, x) ELSE rows
                      st == IF res = "duplicate" THEN "skipped"
                            ELSE IF res = "created" /\ rows1[pk] # rows[pk] THEN "created" ELSE "error"
                      c == Call("createContact", pk, rows[pk].eph, NULL, res,
                                IF res = "created" THEN x ELSE NULL, st)
                  IN  SyncContactItems(rows1, IF res = "created" THEN crm \cup {x} ELSE crm,
                                       order, outs, i + 1, Append(calls, c))

(* Command.handle: nothing without credentials or without instances.        *)
SyncContactsToGhl(f) ==
    LET S == IF get_ghl_auth THEN ContactsWithoutGhl(contacts, f) ELSE {}
    IN  \E order \in Perms(S) : \E outs \in [1..Cardinality(S) -> ItemOutcomes] :
          LET d == SyncContactItems(contacts, crmContacts, order, outs, 1, << >>)
          IN  /\ contacts' = d.rows
              /\ crmContacts' = d.crm
              \* sync_contact starts with rate_limiter.wait(), for every instance
              /\ out' = [Out("sync_contacts_to_ghl", IF get_ghl_auth THEN "success" ELSE "error",
                             FALSE, << >>, << >>, 0, order, d.calls, NULL, {})
                            EXCEPT !.waits = Len(order)]
              /\ UNCHANGED <<appts, patients, events, crmAppts, ghlAuth,
                             stableP, stableA, linked>>

----------------------------------------------------------------------------
(* management command sync_appointments_to_ghl, and a direct call of        *)
(* create_ghl_appointment                                                   *)

(* appointments_to_sync: source filter, ghl_appointment_id IS NULL,         *)
(* ghl_contact_id IS NOT NULL.                                              *)
ApptsWithoutGhl(rows, f) ==
    {k \in 1..Len(rows) :
        (f = "all" \/ rows[k].source = f) /\ rows[k].ghlA = NULL /\ rows[k].ghl # NULL}

RECURSIVE SyncAppointmentItems(_, _, _, _, _, _)
SyncAppointmentItems(rows, crm, order, outs, i, calls) ==
    IF i > Len(order) THEN [rows |-> rows, crm |-> crm, calls |-> calls]
    ELSE LET pk == order[i]
             r == create_ghl_appointment(rows[pk], crm, outs[i])
             rows1 == IF r.res = "created" THEN SaveGhlApptId(rows, pk, r.id) ELSE rows
             st == IF r.res = "duplicate" THEN "skipped"
                   ELSE IF r.res = "created" /\ rows1[pk] # rows[pk] THEN "created" ELSE "error"
             c == Call("createAppointment", pk, rows[pk].ephA, rows[pk].ghl, r.res, r.id, st)
         IN  SyncAppointmentItems(rows1, IF r.res = "created" THEN crm \cup {r.id} ELSE crm,
                                  order, outs, i + 1,
                                  IF r.sent THEN Append(calls, c) ELSE calls)

SyncAppointmentsToGhl(f) ==
    LET S == IF get_ghl_auth THEN ApptsWithoutGhl(appts, f) ELSE {}
    IN  \E order \in Perms(S) : \E outs \in [1..Cardinality(S) -> ItemOutcomes] :
          LET d == SyncAppointmentItems(appts, crmAppts, order, outs, 1, << >>)
          IN  /\ appts' = d.rows
              /\ crmAppts' = d.crm
              \* sync_appointment starts with rate_limiter.wait(), for every instance
              /\ out' = [Out("sync_appointments_to_ghl",
                             IF get_ghl_auth THEN "success" ELSE "error",
                             FALSE, << >>, << >>, 0, order, d.calls, NULL, {})
                            EXCEPT !.waits = Len(order)]
              /\ UNCHANGED <<contacts, patients, events, crmContacts, ghlAuth,
                             stableP, stableA, linked>>

(* create_ghl_appointment(appt_sync) called on the row of primary key pk by *)
(* code that is none of the above (a shell, another task); the function     *)
(* itself stores nothing.                                                   *)
DirectCreateGhlAppointment(pk, res) ==
    LET r == create_ghl_appointment(appts[pk], crmAppts, res)
    IN  /\ crmAppts' = IF r.res = "created" THEN crmAppts \cup {r.id} ELSE crmAppts
        /\ out' = Out("create_ghl_appointment", IF r.res = "created" THEN "success" ELSE "error",
                      FALSE, << >>, << >>, 0, <<pk>>,
                      IF r.sent
                      THEN <<Call("createAppointment", pk, appts[pk].ephA, appts[pk].ghl,
                                  r.res, r.id, "returned")>>
                      ELSE << >>, NULL, {})
        /\ UNCHANGED <<contacts, appts, patients, events, crmContacts, ghlAuth,
                       stableP, stableA, linked>>

----------------------------------------------------------------------------
(* The Clinic System's own users, and the CRM's OAuth exchange.             *)

ClinicAddPatient(phone) ==
    LET p == FreshId(PatientIds, {q \in PatientIds : patients[q].present})
    IN  /\ p # NULL
        /\ patients' = [patients EXCEPT ![p] = [present |-> TRUE, phone |-> phone]]
        /\ stableP' = FALSE
        /\ linked' = {}
        /\ out' = NoOut("env", "success")
        /\ UNCHANGED <<contacts, appts, events, crmContacts, crmAppts, ghlAuth, stableA>>

(* A new event for an active patient.                                       *)
ClinicAddEvent(p) ==
    LET e == FreshId(EventIds, {x \in EventIds : events[x] # NULL})
    IN  /\ e # NULL
        /\ patients[p].present
        /\ events' = [events EXCEPT ![e] = p]
        /\ stableA' = FALSE
        /\ out' = NoOut("env", "success")
        /\ UNCHANGED <<contacts, appts, patients, crmContacts, crmAppts, ghlAuth,
                       stableP, linked>>

(* views.tokens: the OAuth code exchange stores the credentials row.        *)
Tokens ==
    /\ ghlAuth' = "ok"
    /\ out' = NoOut("env", "success")
    /\ UNCHANGED <<contacts, appts, patients, events, crmContacts, crmAppts,
                   stableP, stableA, linked>>

----------------------------------------------------------------------------
(* RateLimiter of the dispatcher commands, and the pool's worker threads    *)

(* One second and min_interval = 1.0 / max_calls_per_second, in ticks.      *)
Second == Rate * TicksPerInterval

min_interval == TicksPerInterval

(* time.time() when the command starts: the epoch (last_called = 0.0) is    *)
(* far more than min_interval in the past.                                  *)
StartTime == Second

(* A worker starts its next task, whose first statement is                  *)
(* rate_limiter.wait(): it takes the lock, reads the clock and either       *)
(* sleeps (holding the lock) or goes on.                                    *)
WaitEnterUnlocked(w) ==
    LET elapsed == now - rl.last_called[rl.index]
    IN  /\ wk[w].pc = "ready"
        /\ todo > 0
        /\ todo' = todo - 1
        /\ rl' = [rl EXCEPT !.lock = w]
        /\ wk' = [wk EXCEPT ![w] = IF elapsed < min_interval
                                   THEN [pc |-> "sleep", wake |-> now + (min_interval - elapsed)]
                                   ELSE [pc |-> "stamp", wake |-> now]]
        /\ UNCHANGED <<now, adm>>

WaitEnter(w) ==
    LET elapsed == now - rl.last_called[rl.index]
    IN  /\ wk[w].pc = "ready"
        /\ todo > 0
        /\ rl.lock = 0
        /\ todo' = todo - 1
        /\ rl' = [rl EXCEPT !.lock = w]
        /\ wk' = [wk EXCEPT ![w] = IF elapsed < min_interval
                                   THEN [pc |-> "sleep", wake |-> now + (min_interval - elapsed)]
                                   ELSE [pc |-> "stamp", wake |-> now]]
        /\ UNCHANGED <<now, adm>>

(* The sleep is over (or there was none): last_called[index] = time.time(), *)
(* the index moves on, the lock is released and wait() returns.             *)
WaitExit(w) ==
    /\ wk[w].pc \in {"sleep", "stamp"}
    /\ now >= wk[w].wake
    /\ rl' = [last_called |-> [rl.last_called EXCEPT ![rl.index] = now],
              index |-> (rl.index + 1) % Rate,
              lock |-> 0]
    /\ adm' = Append(adm, now)
    /\ wk' = [wk EXCEPT ![w] = [pc |-> "ready", wake |-> 0]]
    /\ UNCHANGED <<now, todo>>

Tick ==
    /\ now < MaxTime
    /\ now' = now + 1
    /\ UNCHANGED <<rl, wk, todo, adm>>

----------------------------------------------------------------------------
(* One outbound CRM write: services.appointments.create_ghl_appointment,    *)
(* services.contacts.create_ghl_contact and update_ghl_contact              *)

MAX_RETRIES == 3

RETRY_DELAY == 2

WriteFns == {"create_ghl_appointment", "create_ghl_contact", "update_ghl_contact"}

(* What one requests.post / requests.put can end in: a status code, or an   *)
(* exception.                                                               *)
ClientErrors == {"400", "401", "422", "429"}

ServerErrors == {"500", "503"}

NetworkErrors == {"Timeout", "ConnectionError"}

Responses == {"200", "201"} \cup ClientErrors \cup ServerErrors \cup NetworkErrors
                 \cup {"OtherException"}

(* The function is called: without credentials it returns an error and      *)
(* sends nothing.                                                           *)
StartWrite(fn, auth) ==
    /\ rq.pc \in {"idle", "done"}
    /\ rq' = [fn |-> fn, pc |-> IF auth THEN "sending" ELSE "done", attempt |-> 0,
              resps |-> << >>, result |-> IF auth THEN "none" ELSE "error", slept |-> 0]

(* create_ghl_appointment: the loop goes round again on a 5xx status or a   *)
(* Timeout / ConnectionError, unless this was the last attempt.             *)
ShouldRetryAny(resp, attempt) == attempt < MAX_RETRIES - 1

ShouldRetry(resp, attempt) ==
    /\ resp \in ServerErrors \cup NetworkErrors
    /\ attempt < MAX_RETRIES - 1

(* One pass of `for attempt in range(MAX_RETRIES)`.                         *)
CreateGhlAppointmentAttempt(resp) ==
    /\ rq.fn = "create_ghl_appointment"
    /\ rq.pc = "sending"
    /\ rq.attempt < MAX_RETRIES
    /\ rq' = IF resp \in {"200", "201"}
             THEN [rq EXCEPT !.resps = Append(@, resp), !.pc = "done", !.result = "ok"]
             ELSE IF ShouldRetry(resp, rq.attempt)
             THEN [rq EXCEPT !.resps = Append(@, resp), !.attempt = @ + 1,
                             !.slept = @ + RETRY_DELAY * (rq.attempt + 1)]
             ELSE [rq EXCEPT !.resps = Append(@, resp), !.pc = "done", !.result = "error"]

(* create_ghl_contact: one POST.                                            *)
CreateGhlContactAttempt(resp) ==
    /\ rq.fn = "create_ghl_contact"
    /\ rq.pc = "sending"
    /\ rq' = [rq EXCEPT !.resps = Append(@, resp), !.pc = "done",
                        !.result = IF resp \in {"200", "201"} THEN "ok" ELSE "error"]

(* update_ghl_contact: one PUT, only status 200 is a success.               *)
UpdateGhlContactAttempt(resp) ==
    /\ rq.fn = "update_ghl_contact"
    /\ rq.pc = "sending"
    /\ rq' = [rq EXCEPT !.resps = Append(@, resp), !.pc = "done",
                        !.result = IF resp = "200" THEN "ok" ELSE "error"]

----------------------------------------------------------------------------
(* One operation of the Clinic client: ephysio.services.patients and        *)
(* ephysio.services.appointments over ephysio.services.auth / headers.      *)

ClinicOps ==
    {"get_active_patients", "create_patient", "get_ephysio_appointments",
     "create_ephysio_appointment"}

(* The request an operation starts with; create_ephysio_appointment starts  *)
(* with get_or_create_invoice, whose first request is the invoice lookup.   *)
FirstStage(op) ==
    CASE op = "get_active_patients" -> "patients_get"
      [] op = "create_patient" -> "patient_post"
      [] op = "get_ephysio_appointments" -> "events_get"
      [] op = "create_ephysio_appointment" -> "invoice_get"

(* What a request can end in: 200 with the body the caller looks for, 200   *)
(* without it (no invoice in the list, no id in the answer), 401, another   *)
(* error status, or an exception of requests.                               *)
ClinicResponses == {"200", "200_empty", "401", "500", "exc"}

(* The requests followed by `if response.status_code == 401:`; the second   *)
(* invoice lookup (without the date parameter) is not.                      *)
Handles401(stage) == stage # "invoice_get_nodate"

(* The query parameters of the POST that creates the event.                 *)
query_params == {"ids", "isCancelMultiUser", "changeSeries", "changeAllDescriptions"}

NoRequest == [method |-> "none", url |-> "none", body |-> "none", params |-> {}]

(* What requests.get / requests.post is called with, apart from the         *)
(* headers, at each request of the client: first send and replay.           *)
clinic_request(stage, replay) ==
    CASE stage = "patients_get" ->
             [method |-> "GET", url |-> "/patients", body |-> "none", params |-> {"status"}]
      [] stage = "patient_post" ->
             [method |-> "POST", url |-> "/patients/request", body |-> "payload",
              params |-> {}]
      [] stage = "events_get" ->
             [method |-> "GET", url |-> "EVENT_GET_URL", body |-> "none",
              params |-> {"from", "to"}]
      [] stage = "invoice_get" ->
             [method |-> "GET", url |-> "INVOICE_CREATE_URL/patients/{patient_id}",
              body |-> "none", params |-> {"open", "date"}]
      [] stage = "invoice_get_nodate" ->
             [method |-> "GET", url |-> "INVOICE_CREATE_URL/patients/{patient_id}",
              body |-> "none", params |-> {"open"}]
      [] stage = "invoice_post" ->
             [method |-> "POST", url |-> "INVOICE_CREATE_URL", body |-> "invoice_payload",
              params |-> {}]
      [] stage = "event_post" ->
             [method |-> "POST", url |-> "EVENT_CREATE_URL", body |-> "payload",
              params |-> IF replay THEN {} ELSE query_params]

ReqEntry(stage, phase, resp, token) ==
    [kind |-> "request", req |-> stage, replay |-> (phase = "replay"), resp |-> resp,
     token |-> token, sent |-> clinic_request(stage, phase = "replay")]

LoginEntry(stage, ok, token) ==
    [kind |-> "login", req |-> stage, replay |-> FALSE,
     resp |-> IF ok THEN "200" ELSE "error", token |-> token, sent |-> NoRequest]

(* authenticate_ephysio: POST /token, raise_for_status, then                *)
(* update_or_create(id=1, defaults=...); the Clinic of the model refuses    *)
(* the login once MaxLogins tokens are out.                                 *)
CurrentToken(rows) == IF rows = << >> THEN 0 ELSE rows[1].token

LoginOk(rows, ok) == ok /\ CurrentToken(rows) < MaxLogins

authenticate_ephysio(rows, ok) ==
    IF ~LoginOk(rows, ok) THEN rows
    ELSE IF \E k \in 1..Len(rows) : rows[k].id = 1
    THEN [k \in 1..Len(rows) |->
             IF rows[k].id = 1 THEN [rows[k] EXCEPT !.token = CurrentToken(rows) + 1]
             ELSE rows[k]]
    ELSE Append(rows, [id |-> 1, token |-> CurrentToken(rows) + 1])

(* Where the operation goes after the answer to a request that is not       *)
(* followed by a re-authentication: [stage, phase, result].                 *)
Goto(stage) == [stage |-> stage, phase |-> "first", result |-> "none"]

Finished(result) == [stage |-> "none", phase |-> "done", result |-> result]

AfterResponse(stage, resp) ==
    CASE stage = "invoice_get" ->
             IF resp = "200" THEN Goto("event_post")
             ELSE IF resp = "exc" THEN Goto("invoice_post")
             ELSE Goto("invoice_get_nodate")
      [] stage = "invoice_get_nodate" ->
             IF resp = "200" THEN Goto("event_post") ELSE Goto("invoice_post")
      [] stage = "invoice_post" ->
             IF resp = "200" THEN Goto("event_post") ELSE Finished("fatal")
      [] OTHER ->
             IF resp \in {"200", "200_empty"} THEN Finished("ok") ELSE Finished("fatal")

(* Where the operation goes when a statement raises: the invoice lookups    *)
(* are inside `try ... except Exception: pass`, everything else propagates. *)
AfterException(stage) ==
    IF stage \in {"invoice_get", "invoice_get_nodate"} THEN Goto("invoice_post")
    ELSE Finished("fatal")

Move(c, log, t) ==
    [op |-> c.op, stage |-> t.stage, phase |-> t.phase, log |-> log, result |-> t.result]

StartClinicOp(op) ==
    /\ cl.phase \in {"idle", "done"}
    /\ cl' = [op |-> op, stage |-> FirstStage(op), phase |-> "first", log |-> << >>,
              result |-> "none"]
    /\ UNCHANGED ephAuth

(* requests.get / requests.post with headers=get_ephysio_headers(): the     *)
(* headers function logs in first when the table has no row.                *)
ClinicSend(resp, ok) ==
    LET needs == ephAuth = << >>
        rows == IF needs THEN authenticate_ephysio(ephAuth, ok) ELSE ephAuth
        log1 == IF needs
                THEN Append(cl.log, LoginEntry(cl.stage, LoginOk(ephAuth, ok), CurrentToken(rows)))
                ELSE cl.log
    IN  /\ cl.phase \in {"first", "replay"}
        /\ ephAuth' = rows
        /\ IF rows = << >>
           THEN cl' = Move(cl, log1, AfterException(cl.stage))
           ELSE LET log2 == Append(log1, ReqEntry(cl.stage, cl.phase, resp, CurrentToken(rows)))
                IN  IF resp = "401" /\ cl.phase = "first" /\ Handles401(cl.stage)
                    THEN cl' = [cl EXCEPT !.log = log2, !.phase = "reauth"]
                    ELSE IF resp = "exc"
                    THEN cl' = Move(cl, log2, AfterException(cl.stage))
                    ELSE cl' = Move(cl, log2, AfterResponse(cl.stage, resp))

(* The authenticate_ephysio() call between a 401 and the replay.            *)
ClinicReauth(ok) ==
    LET rows == authenticate_ephysio(ephAuth, ok)
        log1 == Append(cl.log, LoginEntry(cl.stage, LoginOk(ephAuth, ok), CurrentToken(rows)))
    IN  /\ cl.phase = "reauth"
        /\ ephAuth' = rows
        /\ IF LoginOk(ephAuth, ok)
           THEN cl' = [cl EXCEPT !.log = log1, !.phase = "replay"]
           ELSE cl' = Move(cl, log1, AfterException(cl.stage))

----------------------------------------------------------------------------
(* The stored credentials: views.tokens, services.contacts.refresh_ghl_token *)
(* and get_ghl_auth, tasks.refresh_ghl_token_periodic, and the Clinic login. *)

Locations == 1..MaxLocations

(* None, and the empty string, as values of a token field.                  *)
None == NULL

EmptyString == -1

CredRow(loc, access, refresh) ==
    [location_id |-> loc, access_token |-> access, refresh_token |-> refresh]

(* access_token and refresh_token are TextField() without null=True: saving *)
(* None raises IntegrityError.                                              *)
NotNullViolation(row) == row.access_token = None \/ row.refresh_token = None

(* GHLAuthCredentials.objects.first(): the row with the lowest primary key  *)
(* (rows are never deleted), 0 when the table is empty.                     *)
FirstCred(rows) == IF rows = << >> THEN 0 ELSE 1

(* views.tokens after the code exchange answered with the JSON `resp`:      *)
(* update_or_create(location_id=resp.locationId, defaults=...). Returns the *)
(* table and the key written; raised = an exception left the view.          *)
update_or_create(rows, resp) ==
    LET ks == {k \in 1..Len(rows) : rows[k].location_id = resp.location_id}
    IN  IF NotNullViolation(resp) \/ Cardinality(ks) > 1
        THEN [rows |-> rows, pk |-> 0, raised |-> TRUE]
        ELSE IF ks = {}
        THEN [rows |-> Append(rows, resp), pk |-> Len(rows) + 1, raised |-> FALSE]
        ELSE [rows |-> [k \in 1..Len(rows) |-> IF k \in ks THEN resp ELSE rows[k]],
              pk |-> Min(ks), raised |-> FALSE]

(* The answers of the token endpoint the model draws: with both tokens,     *)
(* with an empty refresh token, or without tokens (an error document).      *)
ExchangeAnswers(loc) ==
    {CredRow(loc, issued + 1, issued + 1), CredRow(loc, issued + 1, EmptyString),
     CredRow(loc, None, None)}

TokensView(resp) ==
    LET r == update_or_create(ghlCreds, resp)
    IN  /\ issued < MaxIssued
        /\ ghlCreds' = r.rows
        /\ issued' = IF r.raised THEN issued ELSE issued + 1
        /\ lastWritten' = IF r.raised THEN lastWritten ELSE r.pk
        /\ authOut' = [op |-> "tokens", ok |-> ~r.raised,
                       status |-> IF r.raised THEN "exception" ELSE "success"]
        /\ UNCHANGED ephAuth

(* What the POST of refresh_ghl_token can end in.                           *)
RefreshAnswers == {"200", "200_no_refresh_token", "200_no_access_token", "401", "exc"}

(* services.contacts.refresh_ghl_token: (success, table).                   *)
refresh_ghl_token_saves_first(rows, answer, tok) ==
    IF rows = << >> THEN [ok |-> FALSE, rows |-> rows]
    ELSE [ok |-> answer = "200", rows |-> [rows EXCEPT ![1].access_token = tok]]

refresh_ghl_token(rows, answer, tok) ==
    LET pk == FirstCred(rows)
    IN  IF pk = 0 THEN [ok |-> FALSE, rows |-> rows]
        ELSE IF rows[pk].refresh_token = EmptyString THEN [ok |-> FALSE, rows |-> rows]
        ELSE IF answer \in {"401", "exc"} THEN [ok |-> FALSE, rows |-> rows]
        ELSE LET new == [rows[pk] EXCEPT
                            !.access_token =
                                IF answer = "200_no_access_token" THEN None ELSE tok,
                            !.refresh_token =
                                IF answer = "200_no_refresh_token" THEN @ ELSE tok]
             IN  IF NotNullViolation(new) THEN [ok |-> FALSE, rows |-> rows]
                 ELSE [ok |-> TRUE, rows |-> [rows EXCEPT ![pk] = new]]

(* tasks.refresh_ghl_token_periodic: the status of the result it returns    *)
(* when refresh_ghl_token returned (True, ...), returned (False, ...) or    *)
(* raised.                                                                  *)
RefreshOutcomes == {"true", "false", "raises"}

refresh_task_status_unguarded(outcome) ==
    IF outcome = "true" THEN "success" ELSE IF outcome = "false" THEN "error" ELSE "exception"

refresh_task_status(outcome) == IF outcome = "true" THEN "success" ELSE "error"

(* The periodic task on the stored credentials.                             *)
RefreshGhlToken(answer) ==
    LET r == refresh_ghl_token(ghlCreds, answer, issued + 1)
        wrote == r.ok
    IN  /\ issued < MaxIssued
        /\ ghlCreds' = r.rows
        /\ issued' = IF wrote THEN issued + 1 ELSE issued
        /\ lastWritten' = IF wrote THEN FirstCred(ghlCreds) ELSE lastWritten
        /\ authOut' = [op |-> "refresh", ok |-> r.ok,
                       status |-> refresh_task_status(IF r.ok THEN "true" ELSE "false")]
        /\ UNCHANGED ephAuth

(* The periodic task as the scheduler sees it.                              *)
RefreshGhlTokenPeriodic(outcome) ==
    /\ out' = [NoOut("refresh_token", refresh_task_status(outcome)) EXCEPT
                  !.fault = IF outcome = "raises" THEN "refresh_ghl_token" ELSE "none"]
    /\ UNCHANGED <<contacts, appts, patients, events, crmContacts, crmAppts, ghlAuth,
                   stableP, stableA, linked>>

(* A Clinic login outside an operation.                                     *)
AuthenticateEphysio(ok) ==
    /\ ephAuth' = authenticate_ephysio(ephAuth, ok)
    /\ authOut' = [op |-> "login", ok |-> LoginOk(ephAuth, ok),
                   status |-> IF LoginOk(ephAuth, ok) THEN "success" ELSE "exception"]
    /\ UNCHANGED <<ghlCreds, issued, lastWritten>>

----------------------------------------------------------------------------
(* services.contacts.build_ghl_contact_payload: the phone and dateOfBirth   *)
(* entries of the payload; strings are sequences of characters.             *)

(* None, or the empty string, as birth_date.                                *)
NoDate == << >>

(* str.split('.')                                                           *)
RECURSIVE split(_)
split(str) ==
    IF \A i \in 1..Len(str) : str[i] # "."
    THEN <<str>>
    ELSE LET i == Min({j \in 1..Len(str) : str[j] = "."})
         IN  <<SubSeq(str, 1, i - 1)>> \o split(SubSeq(str, i + 1, Len(str)))

(* str.zfill(2): zeros on the left up to two characters, after a sign.      *)
zfill2(str) ==
    IF Len(str) >= 2 THEN str
    ELSE IF Len(str) = 1
    THEN IF str[1] \in {"+", "-"} THEN str \o <<"0">> ELSE <<"0">> \o str
    ELSE <<"0", "0">>

(* date_of_birth of the payload: NoDate stands for None.                    *)
date_of_birth(birth_date) ==
    IF birth_date = NoDate THEN NoDate
    ELSE LET parts == split(birth_date)
         IN  IF Len(parts) = 3
             THEN parts[3] \o <<"-">> \o zfill2(parts[2]) \o <<"-">> \o zfill2(parts[1])
             ELSE NoDate

(* The payload as the function from the keys it has to their values (of its *)
(* keys, "phone" and "dateOfBirth" are modelled).                           *)
build_ghl_contact_payload(phone, birth_date) ==
    LET ph == IF phone # NoPhone THEN validate_and_clean_phone(phone) ELSE NoPhone
        dob == date_of_birth(birth_date)
        keys == (IF ph # NoPhone THEN {"phone"} ELSE {})
                    \cup (IF dob # NoDate THEN {"dateOfBirth"} ELSE {})
    IN  [k \in keys |-> IF k = "phone" THEN ph ELSE dob]

(* The phone values of the model's rows: a prefix, up to MaxRawLen          *)
(* characters drawn freely, and no or eight more digits.                    *)
RawPrefixes ==
    {<< >>, <<"+">>, <<"0", "0">>, <<"4", "1">>, <<"0">>, <<"+", "4", "1">>, <<"7">>}

RawChars == {"7", "x", " ", "/"}

RawTails == {<< >>, <<"1", "2", "3", "4", "5", "6", "7", "8">>}

RawPhones ==
    {pre \o mid \o tail :
        pre \in RawPrefixes,
        mid \in UNION {[1..n -> RawChars] : n \in 0..MaxRawLen},
        tail \in RawTails}

(* The birth_date values of the model's rows: two, three or four parts      *)
(* joined by ".", and none.                                                 *)
Days == {<<"1", "5">>, <<"5">>, <<"x", "y">>, << >>}

Months == {<<"0", "3">>, <<"3">>, <<"1", "3", "0">>}

Years == {<<"1", "9", "9", "0">>, <<"9", "0">>, <<"y", "y", "y", "y">>}

BirthDates ==
    {NoDate}
        \cup {d \o <<".">> \o mo : d \in Days, mo \in Months}
        \cup {d \o <<".">> \o mo \o <<".">> \o y : d \in Days, mo \in Months, y \in Years}
        \cup {d \o <<".">> \o mo \o <<".">> \o y \o <<".">> : d \in Days, mo \in Months, y \in Years}

(* The payload of a row with these values is built.                         *)
BuildGhlContactPayload(phone, birth_date) ==
    /\ ~pl.done
    /\ pl' = [phone |-> phone, birth_date |-> birth_date,
              payload |-> build_ghl_contact_payload(phone, birth_date), done |-> TRUE]

----------------------------------------------------------------------------
(* The datetimes written to AppointmentSync.start_time / end_time.  A       *)
(* datetime is [wall, tzinfo]: the wall-clock reading in hours and the zone *)
(* attached to it ("naive": tzinfo is None).                                *)

NoTime == [wall |-> 0, tzinfo |-> "none"]

(* Hours east of UTC of a zone.                                             *)
UtcOffset(zone) == IF zone = "+01:00" THEN 1 ELSE 0

(* The zones the process can run in (UTC, Europe/Zurich in winter).         *)
LocalZones == {"UTC", "+01:00"}

(* appointment.get('start') / .get('end'): an instant, 0 when missing.      *)
EpochHours == 0..MaxHour

(* ephysio.services.appointments.epoch_ms_to_datetime:                       *)
(* datetime.fromtimestamp(t) without tz is the local wall clock, naive.     *)
epoch_ms_to_datetime(epoch, local) ==
    IF epoch = 0 THEN NoTime
    ELSE [wall |-> epoch + UtcOffset(local), tzinfo |-> "naive"]

(* The startTime / endTime strings of a webhook: a wall-clock reading with  *)
(* "Z", with an offset or with neither, and a string that is no datetime.   *)
TimeSuffixes == {"Z", "+01:00", ""}

TimeStrings == {[wall |-> w, suffix |-> x] : w \in 1..MaxHour, x \in TimeSuffixes}
                  \cup {[wall |-> 0, suffix |-> "invalid"]}

(* django.utils.dateparse.parse_datetime                                    *)
parse_datetime(str) ==
    IF str.suffix = "invalid" THEN NoTime
    ELSE [wall |-> str.wall,
          tzinfo |-> CASE str.suffix = "Z" -> "UTC"
                       [] str.suffix = "+01:00" -> "+01:00"
                       [] str.suffix = "" -> "naive"]

TimeRow(by, start_time, end_time) ==
    [by |-> by, start_time |-> start_time, end_time |-> end_time]

WriteTimes(by, start_time, end_time) ==
    /\ Len(tm.rows) < MaxTimeRows
    /\ IF start_time = NoTime \/ end_time = NoTime
       THEN tm' = [tm EXCEPT !.skipped = 1]
       ELSE tm' = [tm EXCEPT !.rows = Append(@, TimeRow(by, start_time, end_time))]

(* The loop body of sync_appointments_incremental and of the command        *)
(* sync_ephysio_appointments for one Clinic appointment.                    *)
TimeWriters == {"sync_appointments_incremental", "sync_ephysio_appointments"}

SyncWritesTimes(by, start, end, local) ==
    WriteTimes(by, epoch_ms_to_datetime(start, local), epoch_ms_to_datetime(end, local))

(* handle_appointment_event for one webhook.                                *)
WebhookWritesTimes(startTime, endTime) ==
    WriteTimes("handle_appointment_event", parse_datetime(startTime), parse_datetime(endTime))

----------------------------------------------------------------------------
(* The persistence of a sync cycle, statement by statement: the rows to     *)
(* update and to create are prepared from the rows the cycle read, then     *)
(* bulk_update and bulk_create each run inside `with transaction.atomic()`. *)
(* Several cycles (task and command, or two workers) can run at once.       *)

BulkIds == 1..MaxBulkIds

BulkCycles == 1..MaxBulkCycles

(* A row of the table by its Clinic id: whether it exists, and the batches  *)
(* <<cycle, kind>> that wrote it.                                           *)
NoRow == [present |-> FALSE, wrote |-> {}]

IdleCycle ==
    [phase |-> "idle", upd |-> << >>, cre |-> << >>, pos |-> 0, work |-> {}, ignored |-> {},
     status |-> "none", fault |-> "none", at |-> "none"]

KindOf(phase) == IF phase = "updating" THEN "bulk_update" ELSE "bulk_create"

BatchOf(cy, kind) == IF kind = "bulk_update" THEN cy.upd ELSE cy.cre

InAtomic(cy) == cy.phase \in {"updating", "creating"}

Apply(tbl, c, kind, ids) ==
    [id \in BulkIds |->
        IF id \in ids
        THEN [present |-> TRUE, wrote |-> tbl[id].wrote \cup {<<c, kind>>}]
        ELSE tbl[id]]

(* What the other connections see of a statement: inside                    *)
(* transaction.atomic() nothing before the commit; under autocommit the     *)
(* statement's rows at once.                                                *)
autocommit(tbl, written) == written

atomic(tbl, written) == tbl

(* bulk_create(..., ignore_conflicts=True)                                  *)
ignore_conflicts_off == FALSE

ignore_conflicts == TRUE

(* The cycle has fetched the Clinic records `fetched` and read the existing *)
(* rows: existing ids go to the update list, the others to the create list, *)
(* both in the order of the fetched list.                                   *)
PrepareBulk(c, fetched) ==
    LET existing == {id \in BulkIds : bk.table[id].present}
    IN  /\ bk.cyc[c].phase = "idle"
        /\ bk' = [bk EXCEPT !.cyc[c] = [IdleCycle EXCEPT
                                           !.phase = "prepared",
                                           !.upd = SortedSeq(fetched \cap existing),
                                           !.cre = SortedSeq(fetched \ existing)]]

(* `if contacts_to_update:` / `if contacts_to_create:` and the entry into   *)
(* the atomic block; a cycle with nothing left to persist goes on and       *)
(* returns success.                                                         *)
EnterAtomic(c) ==
    LET cy == bk.cyc[c]
        next == IF cy.phase = "prepared" /\ cy.upd # << >> THEN "updating"
                ELSE IF cy.cre # << >> THEN "creating" ELSE "done"
    IN  /\ cy.phase \in {"prepared", "updated"}
        /\ bk' = [bk EXCEPT !.cyc[c] = [cy EXCEPT
                                           !.phase = next, !.pos = 0, !.work = {},
                                           !.status = IF next = "done" THEN "success" ELSE @]]

(* Another open transaction holds an uncommitted write of the row: the      *)
(* statement waits for it.                                                  *)
Locked(c, id) ==
    \E d \in BulkCycles \ {c} : InAtomic(bk.cyc[d]) /\ id \in bk.cyc[d].work

(* The next row of the batch is written.  An insert whose Clinic id the     *)
(* table already holds violates unique=True: ON CONFLICT DO NOTHING with    *)
(* ignore_conflicts, IntegrityError (caught by the cycle's except) without. *)
BulkStatement(c) ==
    LET cy == bk.cyc[c]
        kind == KindOf(cy.phase)
        id == BatchOf(cy, kind)[cy.pos + 1]
    IN  /\ InAtomic(cy)
        /\ cy.pos < Len(BatchOf(cy, kind))
        /\ ~Locked(c, id)
        /\ IF kind = "bulk_create" /\ bk.table[id].present
           THEN IF ignore_conflicts
                THEN bk' = [bk EXCEPT !.cyc[c].pos = @ + 1, !.cyc[c].ignored = @ \cup {id},
                                      !.fresh = FALSE]
                ELSE bk' = [bk EXCEPT !.cyc[c] = [cy EXCEPT
                                                     !.phase = "done", !.status = "error",
                                                     !.fault = "IntegrityError", !.at = kind,
                                                     !.work = {}],
                                      !.fresh = FALSE]
           ELSE bk' = [bk EXCEPT !.cyc[c].pos = @ + 1, !.cyc[c].work = @ \cup {id},
                                 !.table = atomic(@, Apply(@, c, kind, {id})),
                                 !.fresh = FALSE]

(* The atomic block is left without an exception: COMMIT.                   *)
CommitBulk(c) ==
    LET cy == bk.cyc[c]
        kind == KindOf(cy.phase)
    IN  /\ InAtomic(cy)
        /\ cy.pos = Len(BatchOf(cy, kind))
        /\ bk' = [bk EXCEPT !.table = Apply(@, c, kind, cy.work),
                            !.cyc[c] = [cy EXCEPT
                                           !.phase = IF kind = "bulk_update" THEN "updated" ELSE "done",
                                           !.status = IF kind = "bulk_create" THEN "success" ELSE @,
                                           !.work = {}],
                            !.fresh = FALSE]

(* The process crashes or the database fails inside the atomic block:       *)
(* ROLLBACK; what the statements made visible before stays.                 *)
AbortBulk(c) ==
    LET cy == bk.cyc[c]
    IN  /\ InAtomic(cy)
        /\ bk' = [bk EXCEPT !.cyc[c] = [cy EXCEPT
                                           !.phase = "done", !.status = "error",
                                           !.fault = "aborted", !.at = KindOf(cy.phase),
                                           !.work = {}],
                            !.fresh = FALSE]

(* Another connection reads the table.                                      *)
ReadTable ==
    bk' = [bk EXCEPT !.seen = bk.table, !.fresh = TRUE]

----------------------------------------------------------------------------
(* The periodic sync tasks as Celery runs them: setup_periodic_tasks stores *)
(* two independent PeriodicTask rows on one IntervalSchedule; beat sends    *)
(* each due task to the queue, the worker pool takes them from it.          *)

SyncTasks == {"sync_patients_incremental", "sync_appointments_incremental"}

(* The orders in which beat can send the two tasks of a round: the rows     *)
(* name no order, no chain and no dependency between the tasks.             *)
SendOrders ==
    {<<"sync_patients_incremental", "sync_appointments_incremental">>,
     <<"sync_appointments_incremental", "sync_patients_incremental">>}

(* A task on a worker process: it fetches from the Clinic System, reads the *)
(* tables (existing rows, and contact_sync_map in the appointment task),    *)
(* persists its bulk update and create, dispatches to the CRM and returns.  *)
NextPhase(ph) ==
    CASE ph = "fetching" -> "read"
      [] ph = "read" -> "persisted"
      [] ph = "persisted" -> "done"

Running(t) == sch.phase[t] \in {"fetching", "read", "persisted"}

(* celery worker: --pool=solo runs one task at a time, the default pool     *)
(* runs as many as it has processes.                                        *)
StartWorker(n) ==
    /\ sch.pool = 0
    /\ sch' = [sch EXCEPT !.pool = n]

(* celery beat: the interval of both PeriodicTask rows has elapsed.         *)
BeatTick(order) ==
    /\ sch.pool > 0
    /\ sch.round < MaxRounds
    /\ \A t \in SyncTasks : sch.phase[t] \in {"idle", "done"}
    /\ sch' = [sch EXCEPT !.round = @ + 1, !.queue = order,
                          !.phase = [t \in SyncTasks |-> "queued"]]

(* A free worker process takes the task at the head of the queue.           *)
WorkerTake ==
    /\ sch.queue # << >>
    /\ Cardinality({t \in SyncTasks : Running(t)}) < sch.pool
    /\ sch' = [sch EXCEPT !.queue = Tail(@), !.phase[Head(sch.queue)] = "fetching"]

TaskStep(t) ==
    /\ Running(t)
    /\ sch' = [sch EXCEPT !.phase[t] = NextPhase(@)]

----------------------------------------------------------------------------
(* One run of a dispatcher command (sync_contacts_to_ghl,                   *)
(* sync_appointments_to_ghl): the ThreadPoolExecutor, rate_limiter.lock,    *)
(* stats_lock and the stats dictionary                                      *)

Dispatchers == {"sync_contacts_to_ghl", "sync_appointments_to_ghl"}

PoolItems == 1..MaxPoolItems

PoolThreads == 1..MaxPoolWorkers

(* The keys of stats.                                                       *)
StatKeys(cmd) ==
    IF cmd = "sync_contacts_to_ghl"
    THEN {"created", "updated", "errors", "skipped"}
    ELSE {"created", "errors", "skipped"}

(* What the body of sync_contact / sync_appointment comes to after          *)
(* rate_limiter.wait(): the branch it takes, or an exception.               *)
Branches(cmd) ==
    IF cmd = "sync_contacts_to_ghl"
    THEN {"created", "updated", "skipped", "error", "exception"}
    ELSE {"created", "skipped", "error", "exception"}

(* The stats key a branch increments; the handler of `except Exception`     *)
(* counts an error.                                                         *)
StatOf(branch) ==
    IF branch \in {"error", "exception"} THEN "errors" ELSE branch

IdleThread == [pc |-> "idle", item |-> 0, key |-> "none", read |-> 0]

IdlePool ==
    [cmd |-> "none", workers |-> 0, total |-> 0, main |-> "idle",
     item |-> [i \in PoolItems |-> "none"],
     th |-> [w \in PoolThreads |-> IdleThread],
     rate_lock |-> 0, stats_lock |-> 0,
     stats |-> [k \in {"created", "updated", "errors", "skipped"} |-> 0],
     processed |-> 0]

(* handle(): the command counts the rows to sync; with none it returns,     *)
(* otherwise it creates the pool and submits one future per row.            *)
StartDispatcher(cmd, workers, total) ==
    /\ dp.main = "idle"
    /\ dp' = [IdlePool EXCEPT !.cmd = cmd, !.workers = workers, !.total = total,
                              !.main = IF total = 0 THEN "returned" ELSE "pool",
                              !.item = [i \in PoolItems |->
                                           IF i <= total THEN "queued" ELSE "none"]]

(* A free thread of the pool takes the next future of the work queue.       *)
PoolTake(w) ==
    LET queued == {i \in PoolItems : dp.item[i] = "queued"}
    IN  /\ dp.main = "pool"
        /\ w <= dp.workers
        /\ dp.th[w].pc = "idle"
        /\ queued # {}
        /\ LET i == CHOOSE j \in queued : \A k \in queued : j <= k
           IN  dp' = [dp EXCEPT !.item[i] = "running",
                                !.th[w] = [IdleThread EXCEPT !.pc = "wait", !.item = i]]

(* rate_limiter.wait(): `with self.lock`, a sleep that ends, the stamp.     *)
RateLockAcquire(w) ==
    /\ dp.th[w].pc = "wait"
    /\ dp.rate_lock = 0
    /\ dp' = [dp EXCEPT !.rate_lock = w, !.th[w].pc = "in_wait"]

RateLockRelease(w) ==
    /\ dp.th[w].pc = "in_wait"
    /\ dp' = [dp EXCEPT !.rate_lock = 0, !.th[w].pc = "call"]

(* The CRM request (its timeout and retry loop are bounded) and the branch  *)
(* that follows; every branch ends in `with stats_lock: stats[key] += 1`.   *)
SyncOne(w, branch) ==
    /\ dp.th[w].pc = "call"
    /\ branch \in Branches(dp.cmd)
    /\ dp' = [dp EXCEPT !.th[w].pc = "classify", !.th[w].key = StatOf(branch)]

(* `with stats_lock`: the thread takes the lock and reads the counter.      *)
StatsLockAcquireUnlocked(w) ==
    /\ dp.th[w].pc = "classify"
    /\ dp' = [dp EXCEPT !.stats_lock = w, !.th[w].pc = "count",
                        !.th[w].read = dp.stats[dp.th[w].key]]

StatsLockAcquire(w) ==
    /\ dp.th[w].pc = "classify"
    /\ dp.stats_lock = 0
    /\ dp' = [dp EXCEPT !.stats_lock = w, !.th[w].pc = "count",
                        !.th[w].read = dp.stats[dp.th[w].key]]

(* It stores the counter plus one, leaves the block and returns the         *)
(* result dictionary: the future is done.                                   *)
StatsLockRelease(w) ==
    /\ dp.th[w].pc = "count"
    /\ dp' = [dp EXCEPT !.stats[dp.th[w].key] = dp.th[w].read + 1,
                        !.stats_lock = 0,
                        !.item[dp.th[w].item] = dp.th[w].key,
                        !.th[w] = IdleThread]

(* as_completed has yielded every future and the `with` block of the        *)
(* executor is left: the summary is printed.                                *)
PoolShutdown ==
    /\ dp.main = "pool"
    /\ \A i \in PoolItems : dp.item[i] \notin {"queued", "running"}
    /\ dp' = [dp EXCEPT !.main = "summary", !.processed = dp.total]

----------------------------------------------------------------------------
(* The `source` column of ContactSync and AppointmentSync rows, by the      *)
(* Clinic id the row is linked to                                           *)

SourceTables == {"ContactSync", "AppointmentSync"}

SourceIds == 1..MaxSourceIds

(* Who updates existing rows from a fetched Clinic list.                    *)
SourceWriters == {"task", "command"}

NoSourceRow == [present |-> FALSE, source |-> "none", born |-> "none"]

(* The source an update leaves in an existing row.  The incremental tasks   *)
(* keep a source other than empty or 'ephysio'; the commands                *)
(* sync_ephysio_patients and sync_ephysio_appointments assign 'ephysio'.    *)
source_on_update(by, source) ==
    IF by = "task"
    THEN (IF source = "" \/ source = "ephysio" THEN "ephysio" ELSE source)
    ELSE "ephysio"

(* handle_contact_event / handle_appointment_event: the row is created with *)
(* source 'ghl' and the record created (or found) in the Clinic System      *)
(* gives it its Clinic id.                                                  *)
WebhookCreatesRow(t, id) ==
    /\ ~sc[t][id].present
    /\ sc' = [sc EXCEPT ![t][id] = [present |-> TRUE, source |-> "ghl", born |-> "ghl"]]

(* A cycle or a command run over the fetched ids: existing rows are         *)
(* updated (source is one of the update_fields), the others created with    *)
(* source 'ephysio'.                                                        *)
SyncWritesSource(by, t, fetched) ==
    /\ fetched # {}
    /\ sc' = [sc EXCEPT ![t] = [id \in SourceIds |->
                 IF id \notin fetched THEN sc[t][id]
                 ELSE IF sc[t][id].present
                      THEN [sc[t][id] EXCEPT !.source = source_on_update(by, @)]
                      ELSE [present |-> TRUE, source |-> "ephysio", born |-> "ephysio"]]]

----------------------------------------------------------------------------
(* tasks.sync_patients_incremental and sync_appointments_incremental over   *)
(* a fetched list of any content: the loop, the bulk update and create and  *)
(* the dispatch loop.  Ids are the strings the code handles.                *)

(* patient.get('id') of a record that has no id.                            *)
PyNone == "<None>"

(* str(value).                                                              *)
py_str(v) == IF v = PyNone THEN "None" ELSE v

(* `if not value` on a string.                                              *)
falsy(str) == str = ""

(* What the 'id' of a fetched patient can be.                               *)
RawPatientIds == {PyNone, "", "1", "2"}

(* Fetched appointments: 'id', 'patientId', and whether 'start' and 'end'   *)
(* are there.                                                               *)
RawAppointments == [id : {PyNone, "7"}, patientId : {PyNone, "1"}, timed : BOOLEAN]

ListsOf(S) == UNION {[1..n -> S] : n \in 0..MaxFetched}

ListOutcomes == {"created", "error"}

NoListResult ==
    [task |-> "none", created |-> 0, updated |-> 0, inserted |-> 0, updRows |-> {},
     calls |-> << >>]

(* Primary key of the row whose column `col` holds v (0: no such row).      *)
ListPk(rows, col, v) ==
    IF \E k \in 1..Len(rows) : rows[k][col] = v
    THEN CHOOSE k \in 1..Len(rows) : rows[k][col] = v
    ELSE 0

(* bulk_create(objs, ignore_conflicts=True): an object whose unique column  *)
(* is already in the table is not inserted.                                 *)
RECURSIVE bulk_create(_, _, _)
bulk_create(rows, objs, col) ==
    IF objs = << >> THEN rows
    ELSE bulk_create(IF ListPk(rows, col, Head(objs)[col]) # 0 THEN rows
                     ELSE Append(rows, Head(objs)),
                     Tail(objs), col)

(* The dispatch loop: one CRM create per entry of the list; a success       *)
(* stores the id of the response in the row.                                *)
RECURSIVE dispatch_loop(_, _, _, _, _, _)
dispatch_loop(rows, list, outs, col, crm, calls) ==
    IF list = << >> THEN [rows |-> rows, crm |-> crm, calls |-> calls]
    ELSE LET ok == Head(outs) = "created"
         IN  dispatch_loop(IF ok THEN [rows EXCEPT ![Head(list)][col] = crm + 1] ELSE rows,
                           Tail(list), Tail(outs), col,
                           IF ok THEN crm + 1 ELSE crm,
                           Append(calls, Head(list)))

(* sync_patients_incremental with the fetched list `fetched`.               *)
ListSyncPatients(fetched, auth, outs) ==
    LET rows == fl.contacts
        ids == [i \in 1..Len(fetched) |-> py_str(fetched[i].id)]
        kept == SelectSeq(ids, LAMBDA id : ~falsy(id))
        upd == SelectSeq(kept, LAMBDA id : ListPk(rows, "eph", id) # 0)
        crt == SelectSeq(kept, LAMBDA id : ListPk(rows, "eph", id) = 0)
        updPks == [i \in 1..Len(upd) |-> ListPk(rows, "eph", upd[i])]
        rows2 == bulk_create(rows, [i \in 1..Len(crt) |-> [eph |-> crt[i], ghl |-> NULL]], "eph")
        saved == SelectSeq(updPks, LAMBDA k : rows[k].ghl = NULL)
        newly == SortedSeq({k \in 1..Len(rows2) :
                              rows2[k].eph \in Range(crt) /\ rows2[k].ghl = NULL})
        list == IF auth THEN saved \o newly ELSE << >>
        d == dispatch_loop(rows2, list, outs, "ghl", fl.crm, << >>)
    IN  /\ fl.cycles < MaxListCycles
        /\ outs \in [1..Len(list) -> ListOutcomes]
        /\ fl' = IF fetched = << >>
                 THEN [fl EXCEPT !.cycles = @ + 1,
                                 !.res = [NoListResult EXCEPT !.task = "patients"]]
                 ELSE [fl EXCEPT !.contacts = d.rows, !.crm = d.crm, !.cycles = @ + 1,
                                 !.res = [task |-> "patients",
                                          created |-> Len(crt),
                                          updated |-> Len(upd),
                                          inserted |-> Len(rows2) - Len(rows),
                                          updRows |-> Range(updPks),
                                          calls |-> d.calls]]

(* ghl_contact_id of the ContactSync row of the patient (contact_sync_map). *)
ListContactOf(crows, pid) ==
    IF ListPk(crows, "eph", pid) = 0 THEN NULL ELSE crows[ListPk(crows, "eph", pid)].ghl

(* sync_appointments_incremental with the fetched list `fetched`.           *)
ListSyncAppointments(fetched, auth, outs) ==
    LET rows == fl.appts
        recs == [i \in 1..Len(fetched) |->
                    [ephA |-> py_str(fetched[i].id), eph |-> py_str(fetched[i].patientId),
                     timed |-> fetched[i].timed]]
        kept == SelectSeq(recs, LAMBDA r : ~falsy(r.ephA) /\ ~falsy(r.eph) /\ r.timed)
        upd == SelectSeq(kept, LAMBDA r : ListPk(rows, "ephA", r.ephA) # 0)
        crt == SelectSeq(kept, LAMBDA r : ListPk(rows, "ephA", r.ephA) = 0)
        updPks == [i \in 1..Len(upd) |-> ListPk(rows, "ephA", upd[i].ephA)]
        rows1 == [k \in 1..Len(rows) |->
                    IF \E i \in 1..Len(upd) : updPks[i] = k
                    THEN LET r == upd[CHOOSE i \in 1..Len(upd) :
                                       /\ updPks[i] = k
                                       /\ \A j \in 1..Len(upd) : updPks[j] = k => j <= i]
                         IN  [rows[k] EXCEPT !.eph = r.eph,
                                             !.ghl = ListContactOf(fl.contacts, r.eph)]
                    ELSE rows[k]]
        rows2 == bulk_create(rows1,
                             [i \in 1..Len(crt) |->
                                 [ephA |-> crt[i].ephA, eph |-> crt[i].eph,
                                  ghl |-> ListContactOf(fl.contacts, crt[i].eph),
                                  ghlA |-> NULL]], "ephA")
        saved == SelectSeq(updPks, LAMBDA k : rows[k].ghlA = NULL /\ rows1[k].ghl # NULL)
        newly == SortedSeq({k \in 1..Len(rows2) :
                              /\ \E i \in 1..Len(crt) : crt[i].ephA = rows2[k].ephA
                              /\ rows2[k].ghlA = NULL
                              /\ rows2[k].ghl # NULL})
        list == IF auth THEN saved \o newly ELSE << >>
        d == dispatch_loop(rows2, list, outs, "ghlA", fl.crm, << >>)
    IN  /\ fl.cycles < MaxListCycles
        /\ outs \in [1..Len(list) -> ListOutcomes]
        /\ fl' = IF fetched = << >>
                 THEN [fl EXCEPT !.cycles = @ + 1,
                                 !.res = [NoListResult EXCEPT !.task = "appointments"]]
                 ELSE [fl EXCEPT !.appts = d.rows, !.crm = d.crm, !.cycles = @ + 1,
                                 !.res = [task |-> "appointments",
                                          created |-> Len(crt),
                                          updated |-> Len(upd),
                                          inserted |-> Len(rows2) - Len(rows),
                                          updRows |-> Range(updPks),
                                          calls |-> d.calls]]

----------------------------------------------------------------------------

InitRest ==
    /\ contacts = << >>
    /\ appts = << >>
    /\ patients = [p \in PatientIds |-> [present |-> FALSE, phone |-> NoPhone]]
    /\ events = [e \in EventIds |-> NULL]
    /\ crmContacts = {}
    /\ crmAppts = {}
    /\ ghlAuth = "none"
    /\ out = NoOut("env", "success")
    /\ stableP = FALSE
    /\ stableA = FALSE
    /\ linked = {}
    /\ rl = [last_called |-> [i \in 0..(Rate - 1) |-> 0], index |-> 0, lock |-> 0]
    /\ now = StartTime
    /\ wk = [w \in 1..Workers |-> [pc |-> "ready", wake |-> 0]]
    /\ todo = Items
    /\ adm = << >>
    /\ rq = [fn |-> "none", pc |-> "idle", attempt |-> 0, resps |-> << >>,
             result |-> "none", slept |-> 0]
    /\ cl = [op |-> "none", stage |-> "none", phase |-> "idle", log |-> << >>,
             result |-> "none"]
    /\ ephAuth = << >>
    /\ ghlCreds = << >>
    /\ issued = 0
    /\ lastWritten = 0
    /\ authOut = [op |-> "none", ok |-> TRUE, status |-> "none"]
    /\ sch = [pool |-> 0, round |-> 0, queue |-> << >>,
              phase |-> [t \in SyncTasks |-> "idle"]]
    /\ pl = [phone |-> NoPhone, birth_date |-> NoDate, payload |-> << >>, done |-> FALSE]
    /\ tm = [rows |-> << >>, skipped |-> 0]
    /\ bk = [table |-> [id \in BulkIds |-> NoRow], cyc |-> [c \in BulkCycles |-> IdleCycle],
             seen |-> [id \in BulkIds |-> NoRow], fresh |-> FALSE]
    /\ dp = IdlePool
    /\ sc = [t \in SourceTables |-> [id \in SourceIds |-> NoSourceRow]]
    /\ fl = [contacts |-> << >>, appts |-> << >>, crm |-> 0, cycles |-> 0, res |-> NoListResult]

PhoneState(nat, spaced) ==
    [nat |-> nat, spaced |-> spaced, done |-> FALSE, viaClinic |-> NoPhone, direct |-> NoPhone,
     norm |-> [f \in Forms |-> NoPhone], found |-> [sq \in Forms \X Forms |-> NULL]]

Init ==
    /\ InitRest
    /\ px = PhoneState(ExampleNational, TRUE)

Next ==
    \/ (SyncPatientsFetchFails /\ UNCHANGED <<rlVars, rq, auxVars>>)
    \/ (SyncPatientsIncremental /\ UNCHANGED <<rlVars, rq, auxVars>>)
    \/ \E stage \in PersistStages :
          SyncPatientsPersistFails(stage) /\ UNCHANGED <<rlVars, rq, auxVars>>
    \/ \E stage \in PersistStages :
          SyncAppointmentsPersistFails(stage) /\ UNCHANGED <<rlVars, rq, auxVars>>
    \/ \E ph \in ClinicPhones :
          ClinicAddPatient(ph) /\ UNCHANGED <<rlVars, rq, auxVars>>
    \/ (Tokens /\ UNCHANGED <<rlVars, rq, auxVars>>)
    \/ \E type \in UnroutedTypes :
          GhlWebhookUnrouted(type) /\ UNCHANGED <<rlVars, rq, auxVars>>
    \/ (SyncAppointmentsFetchFails /\ UNCHANGED <<rlVars, rq, auxVars>>)
    \/ \E outcome \in RefreshOutcomes :
          RefreshGhlTokenPeriodic(outcome) /\ UNCHANGED <<rlVars, rq, auxVars>>
    \/ (SyncAppointmentsIncremental /\ UNCHANGED <<rlVars, rq, auxVars>>)
    \/ \E p \in PatientIds : ClinicAddEvent(p) /\ UNCHANGED <<rlVars, rq, auxVars>>
    \/ \E z \in GhlApptIds, g \in GhlIds, clinic \in {"ok", "create_fails"} :
          HandleAppointmentEvent(z, g, clinic) /\ UNCHANGED <<rlVars, rq, auxVars>>
    \/ \E f \in SourceFilters :
          SyncContactsToGhl(f) /\ UNCHANGED <<rlVars, rq, auxVars>>
    \/ \E f \in SourceFilters :
          SyncAppointmentsToGhl(f) /\ UNCHANGED <<rlVars, rq, auxVars>>
    \/ \E pk \in 1..Len(appts), res \in CrmOutcomes :
          DirectCreateGhlAppointment(pk, res) /\ UNCHANGED <<rlVars, rq, auxVars>>
    \/ \E g \in GhlIds, ph \in WebhookPhones, clinic \in {"ok", "fetch_fails", "create_fails"} :
          HandleContactEvent(g, ph, clinic) /\ UNCHANGED <<rlVars, rq, auxVars>>

Spec == Init /\ [][Next]_vars

NextRL ==
    \/ \E w \in 1..Workers : WaitEnter(w) /\ UNCHANGED <<repoVars, rq, auxVars>>
    \/ \E w \in 1..Workers : WaitExit(w) /\ UNCHANGED <<repoVars, rq, auxVars>>
    \/ (Tick /\ UNCHANGED <<repoVars, rq, auxVars>>)

SpecRL == Init /\ [][NextRL]_vars

NextRetry ==
    \/ \E fn \in WriteFns, auth \in BOOLEAN :
          StartWrite(fn, auth) /\ UNCHANGED <<repoVars, rlVars, auxVars>>
    \/ \E resp \in Responses :
          CreateGhlAppointmentAttempt(resp) /\ UNCHANGED <<repoVars, rlVars, auxVars>>
    \/ \E resp \in Responses :
          CreateGhlContactAttempt(resp) /\ UNCHANGED <<repoVars, rlVars, auxVars>>
    \/ \E resp \in Responses :
          UpdateGhlContactAttempt(resp) /\ UNCHANGED <<repoVars, rlVars, auxVars>>

SpecRetry == Init /\ [][NextRetry]_vars

InitPhone ==
    /\ InitRest
    /\ px \in {PhoneState(n, sp) : n \in Nationals, sp \in BOOLEAN}

NextPhone ==
    NormalizeBoth /\ UNCHANGED <<repoVars, rlVars, rq, cl, ephAuth, credVars, extVars>>

SpecPhone == InitPhone /\ [][NextPhone]_vars

NextClinic ==
    \/ \E op \in ClinicOps : StartClinicOp(op) /\ UNCHANGED <<repoVars, rlVars, rq, px, credVars, extVars>>
    \/ \E resp \in ClinicResponses, ok \in BOOLEAN :
          ClinicSend(resp, ok) /\ UNCHANGED <<repoVars, rlVars, rq, px, credVars, extVars>>
    \/ \E ok \in BOOLEAN : ClinicReauth(ok) /\ UNCHANGED <<repoVars, rlVars, rq, px, credVars, extVars>>

SpecClinic == Init /\ [][NextClinic]_vars

NextAuth ==
    \/ \E loc \in Locations : \E resp \in ExchangeAnswers(loc) :
          TokensView(resp) /\ UNCHANGED <<repoVars, rlVars, rq, px, cl, extVars>>
    \/ \E answer \in RefreshAnswers :
          RefreshGhlToken(answer) /\ UNCHANGED <<repoVars, rlVars, rq, px, cl, extVars>>
    \/ \E ok \in BOOLEAN :
          AuthenticateEphysio(ok) /\ UNCHANGED <<repoVars, rlVars, rq, px, cl, extVars>>

SpecAuth == Init /\ [][NextAuth]_vars

NextSched ==
    \/ \E n \in 1..MaxPool : StartWorker(n) /\ UNCHANGED <<baseVars, pl, tm, bk, moreVars>>
    \/ \E order \in SendOrders : BeatTick(order) /\ UNCHANGED <<baseVars, pl, tm, bk, moreVars>>
    \/ (WorkerTake /\ UNCHANGED <<baseVars, pl, tm, bk, moreVars>>)
    \/ \E t \in SyncTasks : TaskStep(t) /\ UNCHANGED <<baseVars, pl, tm, bk, moreVars>>

SpecSched == Init /\ [][NextSched]_vars

NextPayload ==
    \E phone \in RawPhones, birth_date \in BirthDates :
        BuildGhlContactPayload(phone, birth_date) /\ UNCHANGED <<baseVars, sch, tm, bk, moreVars>>

SpecPayload == Init /\ [][NextPayload]_vars

NextTime ==
    \/ \E by \in TimeWriters, start \in EpochHours, end \in EpochHours, local \in LocalZones :
          SyncWritesTimes(by, start, end, local) /\ UNCHANGED <<baseVars, sch, pl, bk, moreVars>>
    \/ \E startTime \in TimeStrings, endTime \in TimeStrings :
          WebhookWritesTimes(startTime, endTime) /\ UNCHANGED <<baseVars, sch, pl, bk, moreVars>>

SpecTime == Init /\ [][NextTime]_vars

NextBulk ==
    \/ \E c \in BulkCycles, fetched \in SUBSET BulkIds \ {{}} :
          PrepareBulk(c, fetched) /\ UNCHANGED <<baseVars, sch, pl, tm, moreVars>>
    \/ \E c \in BulkCycles : EnterAtomic(c) /\ UNCHANGED <<baseVars, sch, pl, tm, moreVars>>
    \/ \E c \in BulkCycles : BulkStatement(c) /\ UNCHANGED <<baseVars, sch, pl, tm, moreVars>>
    \/ \E c \in BulkCycles : CommitBulk(c) /\ UNCHANGED <<baseVars, sch, pl, tm, moreVars>>
    \/ \E c \in BulkCycles : AbortBulk(c) /\ UNCHANGED <<baseVars, sch, pl, tm, moreVars>>
    \/ (ReadTable /\ UNCHANGED <<baseVars, sch, pl, tm, moreVars>>)

SpecBulk == Init /\ [][NextBulk]_vars

NextPool ==
    \/ \E cmd \in Dispatchers, workers \in PoolThreads, total \in 0..MaxPoolItems :
          StartDispatcher(cmd, workers, total) /\ UNCHANGED <<baseVars, sch, pl, tm, bk, sc, fl>>
    \/ \E w \in PoolThreads : PoolTake(w) /\ UNCHANGED <<baseVars, sch, pl, tm, bk, sc, fl>>
    \/ \E w \in PoolThreads : RateLockAcquire(w) /\ UNCHANGED <<baseVars, sch, pl, tm, bk, sc, fl>>
    \/ \E w \in PoolThreads : RateLockRelease(w) /\ UNCHANGED <<baseVars, sch, pl, tm, bk, sc, fl>>
    \/ \E w \in PoolThreads, branch \in Branches("sync_contacts_to_ghl") :
          SyncOne(w, branch) /\ UNCHANGED <<baseVars, sch, pl, tm, bk, sc, fl>>
    \/ \E w \in PoolThreads : StatsLockAcquire(w) /\ UNCHANGED <<baseVars, sch, pl, tm, bk, sc, fl>>
    \/ \E w \in PoolThreads : StatsLockRelease(w) /\ UNCHANGED <<baseVars, sch, pl, tm, bk, sc, fl>>
    \/ (PoolShutdown /\ UNCHANGED <<baseVars, sch, pl, tm, bk, sc, fl>>)

SpecPool == Init /\ [][NextPool]_vars

NextSource ==
    \/ \E t \in SourceTables, id \in SourceIds :
          WebhookCreatesRow(t, id) /\ UNCHANGED <<baseVars, sch, pl, tm, bk, dp, fl>>
    \/ \E by \in SourceWriters, t \in SourceTables, fetched \in SUBSET SourceIds :
          SyncWritesSource(by, t, fetched) /\ UNCHANGED <<baseVars, sch, pl, tm, bk, dp, fl>>

SpecSource == Init /\ [][NextSource]_vars

NextList ==
    \/ \E fetched \in ListsOf([id : RawPatientIds]), auth \in BOOLEAN,
           outs \in ListsOf(ListOutcomes) :
          ListSyncPatients(fetched, auth, outs) /\ UNCHANGED <<baseVars, sch, pl, tm, bk, dp, sc>>
    \/ \E fetched \in ListsOf(RawAppointments), auth \in BOOLEAN,
           outs \in ListsOf(ListOutcomes) :
          ListSyncAppointments(fetched, auth, outs)
             /\ UNCHANGED <<baseVars, sch, pl, tm, bk, dp, sc>>

SpecList == Init /\ [][NextList]_vars

(* The threads of the pool and the main thread are scheduled: a step that   *)
(* stays possible is taken.                                                 *)
SpecPoolFair == SpecPool /\ WF_vars(NextPool)

----------------------------------------------------------------------------
(* Properties of the Sync-State Repository (specification Spec).            *)

CallsOf(kind) == {i \in 1..Len(out.calls) : out.calls[i].kind = kind}

ContactRowsOf(P) == {k \in 1..Len(contacts) : contacts[k].eph = P}

ApptRowsOf(e) == {k \in 1..Len(appts) : appts[k].ephA = e}

(* C1: in every reachable state no two ContactSync rows share a non-null    *)
(* ephysio_patient_id or a non-null ghl_contact_id, and no two              *)
(* AppointmentSync rows share a non-null ephysio_appointment_id or a        *)
(* non-null ghl_appointment_id.                                             *)
C1_UniqueIds ==
    /\ \A j, k \in 1..Len(contacts) :
          j # k => /\ (contacts[j].eph # NULL => contacts[j].eph # contacts[k].eph)
                   /\ (contacts[j].ghl # NULL => contacts[j].ghl # contacts[k].ghl)
    /\ \A j, k \in 1..Len(appts) :
          j # k => /\ (appts[j].ephA # NULL => appts[j].ephA # appts[k].ephA)
                   /\ (appts[j].ghlA # NULL => appts[j].ghlA # appts[k].ghlA)

(* The dispatcher command has just tried to give a second row the CRM id    *)
(* another row holds (the write was refused), with an appointment stored.   *)
C1_Witness ==
    /\ out.op = "sync_contacts_to_ghl"
    /\ \E i \in CallsOf("updateContact") :
          /\ out.calls[i].res = "updated"
          /\ out.calls[i].st = "error"
          /\ \E k \in 1..Len(contacts) :
                k # out.calls[i].pk /\ contacts[k].ghl = out.calls[i].contact
    /\ \E k \in 1..Len(appts) : appts[k].ephA # NULL

(* C2: an incremental patient sync, and likewise an incremental appointment *)
(* sync, that runs after a successful cycle of its kind with the Clinic     *)
(* dataset unchanged since classifies no fetched record as a create and     *)
(* inserts no row: the number of rows is the same before and after.         *)
C2_Idempotent ==
    (out.op \in {"patients", "appointments"} /\ out.status = "success" /\ out.rerun)
        => (out.created = << >> /\ out.inserted = 0)

C2_Witness ==
    /\ out.op = "patients"
    /\ out.status = "success"
    /\ out.rerun
    /\ Len(out.updated) = MaxPatients
    /\ Len(contacts) >= MaxPatients

(* C3 as stated: for a Clinic patient P without a row, one cycle creates    *)
(* exactly one row with ephysio_patient_id = P and issues a CRM             *)
(* createContact for it.                                                    *)
C3_Original ==
    out.op = "patients" =>
        \A i \in 1..Len(out.created) :
            /\ Cardinality(ContactRowsOf(out.created[i])) = 1
            /\ Cardinality({j \in CallsOf("createContact") :
                               out.calls[j].key = out.created[i]}) = 1

(* C3: for a Clinic patient P without a row, one cycle creates exactly one  *)
(* row with ephysio_patient_id = P and hands it to the dispatch; provided   *)
(* CRM credentials are stored it issues exactly one createContact for it;   *)
(* when that create succeeds with remote id X the row's ghl_contact_id is   *)
(* X; once linked so, every later cycle on the same data issues no          *)
(* createContact for P and creates no second row for P.                     *)
C3_CreateOnce ==
    out.op = "patients" =>
        /\ \A i \in 1..Len(out.created) :
             LET P == out.created[i]
                 cs == {j \in CallsOf("createContact") : out.calls[j].key = P}
             IN  /\ Cardinality(ContactRowsOf(P)) = 1
                 /\ \A k \in ContactRowsOf(P) : k \in Range(out.toSync)
                 /\ get_ghl_auth => Cardinality(cs) = 1
                 /\ ~get_ghl_auth => cs = {}
                 /\ \A j \in cs : out.calls[j].res = "created" =>
                       /\ out.calls[j].id # NULL
                       /\ \A k \in ContactRowsOf(P) : contacts[k].ghl = out.calls[j].id
        /\ \A P \in linked \ Range(out.created) :
             /\ Cardinality(ContactRowsOf(P)) = 1
             /\ \A j \in CallsOf("createContact") : out.calls[j].key # P

(* A cycle has created the row of a patient and linked it to the CRM        *)
(* contact the create returned.                                             *)
C3_Witness ==
    /\ out.op = "patients"
    /\ \E i \in 1..Len(out.created) : \E j \in CallsOf("createContact") :
          /\ out.calls[j].key = out.created[i]
          /\ out.calls[j].res = "created"
          /\ out.created[i] \in linked
          /\ \E k \in ContactRowsOf(out.created[i]) : contacts[k].ghl = out.calls[j].id

(* C4 as stated: a contact event whose CRM id no row holds and whose phone  *)
(* normalizes to that of a Clinic-sourced row without ghl_contact_id        *)
(* creates no row, and that row's ghl_contact_id is the event's id.         *)
C4_MatchByPhone ==
    (out.op = "contact_event" /\ out.updated = << >> /\ out.matched # {})
        => /\ out.inserted = 0
           /\ \E k \in out.matched : contacts[k].ghl = out.arg

(* C5: an event fetched for a patient without a linked ContactSync row is   *)
(* stored with ghl_contact_id = NULL, is not in the dispatch list and       *)
(* causes no createAppointment; a later cycle that fetches it again when    *)
(* the patient's row has a ghl_contact_id stores that id on the appointment *)
(* row and puts the row in the dispatch list (unless it already has a       *)
(* ghl_appointment_id), and with credentials stored issues a                *)
(* createAppointment for it.                                                *)
C5_DeferredLink ==
    out.op = "appointments" =>
        /\ \A i \in 1..Len(out.created) :
             LET e == out.created[i]
             IN  /\ ApptRowsOf(e) # {}
                 /\ ResolveContact(contacts, events[e]) = NULL =>
                       \A k \in ApptRowsOf(e) :
                           /\ appts[k].ghl = NULL
                           /\ k \notin Range(out.toSync)
                           /\ \A j \in CallsOf("createAppointment") : out.calls[j].pk # k
        /\ \A i \in 1..Len(out.updated) :
             LET e == out.updated[i]
                 X == ResolveContact(contacts, events[e])
             IN  X # NULL =>
                   \A k \in ApptRowsOf(e) :
                       /\ appts[k].ghl = X
                       /\ \/ k \in Range(out.toSync)
                          \/ /\ appts[k].ghlA # NULL
                             /\ \A j \in CallsOf("createAppointment") : out.calls[j].pk # k
                       /\ (k \in Range(out.toSync) /\ get_ghl_auth) =>
                             \E j \in CallsOf("createAppointment") :
                                 out.calls[j].pk = k /\ out.calls[j].contact = X

(* A cycle has fetched again an event whose row had no CRM appointment, has *)
(* stored the patient's ghl_contact_id on it and has dispatched it.         *)
C5_Witness ==
    /\ out.op = "appointments"
    /\ \E i \in 1..Len(out.updated) : \E k \in ApptRowsOf(out.updated[i]) :
          /\ appts[k].source = "ephysio"
          /\ appts[k].ghl # NULL
          /\ k \in Range(out.toSync)
          /\ \E j \in CallsOf("createAppointment") :
                out.calls[j].pk = k /\ out.calls[j].res = "created"

(* C6: no createAppointment request is issued for a row whose               *)
(* ghl_contact_id is NULL, whichever handler issues it.                     *)
C6_ContactRequired ==
    \A j \in CallsOf("createAppointment") : out.calls[j].contact # NULL

(* create_ghl_appointment was called directly on a row without              *)
(* ghl_contact_id while credentials were stored, and sent nothing.          *)
C6_Witness ==
    /\ out.op = "create_ghl_appointment"
    /\ get_ghl_auth
    /\ out.calls = << >>
    /\ \E k \in Range(out.toSync) : appts[k].ghl = NULL

----------------------------------------------------------------------------
(* Properties of the RateLimiter (specification SpecRL).                    *)

(* C7 as stated: no window of one second holds more than Rate admissions.   *)
C7_WindowBound ==
    \A i, j \in 1..Len(adm) :
        (i <= j /\ adm[j] - adm[i] < Second) => j - i + 1 <= Rate

(* C8 as stated: N admissions take at least (N - 1) / Rate seconds from the *)
(* first to the last.                                                       *)
C8_MinDuration ==
    Len(adm) = Items =>
        (adm[Len(adm)] - adm[1]) * Rate >= (Len(adm) - 1) * Second

----------------------------------------------------------------------------
(* Properties of one outbound CRM write (specification SpecRetry).          *)

Last(q) == q[Len(q)]

(* C9: create_ghl_appointment sends nothing after a 4xx response and        *)
(* returns an error (a first response of 4xx means exactly one attempt);    *)
(* when every attempt ends in a 5xx status or a timeout / connection error  *)
(* it makes exactly MAX_RETRIES = 3 attempts and returns an error; no write *)
(* is attempted more than 3 times.                                          *)
C9_RetryPolicy ==
    /\ Len(rq.resps) <= MAX_RETRIES
    /\ rq.fn = "create_ghl_appointment" =>
          /\ \A i \in 1..(Len(rq.resps) - 1) : rq.resps[i] \in ServerErrors \cup NetworkErrors
          /\ (rq.resps # << >> /\ Last(rq.resps) \in ClientErrors) =>
                (rq.pc = "done" /\ rq.result = "error")
          /\ (rq.resps # << >> /\ rq.resps[1] \in ClientErrors) => Len(rq.resps) = 1
          /\ ( /\ rq.pc = "done"
               /\ rq.resps # << >>
               /\ \A i \in 1..Len(rq.resps) : rq.resps[i] \in ServerErrors \cup NetworkErrors )
                => (Len(rq.resps) = MAX_RETRIES /\ rq.result = "error")

(* A write whose three attempts ended in 503, a timeout and 503 again has   *)
(* returned an error after sleeping 2 s and 4 s.                            *)
C9_Witness ==
    /\ rq.fn = "create_ghl_appointment"
    /\ rq.pc = "done"
    /\ rq.resps = <<"503", "Timeout", "503">>
    /\ rq.result = "error"
    /\ rq.slept = 6

(* C10 as stated: a contact write whose attempts all end in a 5xx status or *)
(* a network / timeout error is made 3 times before it returns an error.    *)
C10_ContactRetry ==
    ( /\ rq.fn \in {"create_ghl_contact", "update_ghl_contact"}
      /\ rq.pc = "done"
      /\ rq.resps # << >>
      /\ \A i \in 1..Len(rq.resps) : rq.resps[i] \in ServerErrors \cup NetworkErrors )
        => Len(rq.resps) = MAX_RETRIES

----------------------------------------------------------------------------
(* Properties of the phone normalizers (specification SpecPhone).           *)

(* C11: for a Swiss number written "+41" and its national digits, with or   *)
(* without spaces, the Clinic-facing normalizer followed by the CRM-facing  *)
(* one gives the same string as the CRM-facing one on "0" and the national  *)
(* digits; for +41 79 123 45 67 both give "+41791234567".                   *)
C11_RoundTrip ==
    px.done =>
        /\ px.viaClinic = px.direct
        /\ px.viaClinic = <<"+", "4", "1">> \o px.nat
        /\ px.nat = ExampleNational =>
              px.direct = <<"+", "4", "1", "7", "9", "1", "2", "3", "4", "5", "6", "7">>

C11_Witness ==
    /\ px.done
    /\ px.nat = ExampleNational
    /\ px.spaced
    /\ px.viaClinic = <<"+", "4", "1", "7", "9", "1", "2", "3", "4", "5", "6", "7">>

----------------------------------------------------------------------------
(* Failures of a sync cycle (specification Spec).                           *)

Cycles == {"patients", "appointments"}

(* C12: when the initial fetch from the Clinic System fails, the cycle      *)
(* returns a result with status 'error', no ContactSync or AppointmentSync  *)
(* row is created or updated, and no CRM write is issued.                   *)
C12_FetchFailure ==
    [][(out'.op \in Cycles /\ out'.fault = "fetch")
          => /\ out'.status = "error"
             /\ out'.calls = << >>
             /\ UNCHANGED <<contacts, appts, crmContacts, crmAppts>>]_vars

(* The patient fetch has failed while the table holds a row of a patient    *)
(* whose phone the cycle would have rewritten, and a patient without a row. *)
C12_Witness ==
    /\ out.op = "patients"
    /\ out.fault = "fetch"
    /\ out.status = "error"
    /\ \E k \in 1..Len(contacts) :
          UpdatedContact(contacts, PatientsToUpdate(contacts, PatientList), k) # contacts[k]
    /\ PatientsToCreate(contacts, PatientList) # << >>

(* C16 as stated: when a cycle aborts with a cycle-level error (the fetch,  *)
(* the bulk update or the bulk create failed), the ContactSync and          *)
(* AppointmentSync tables are as they were before the cycle started.        *)
C16_AbortFrame ==
    [][(out'.op \in Cycles /\ out'.status = "error" /\ out'.fault # "none")
          => UNCHANGED <<contacts, appts>>]_vars

----------------------------------------------------------------------------
(* Properties of the Clinic client (specification SpecClinic).              *)

(* C17 as stated: a Clinic request answered 401 is followed by one          *)
(* re-authentication, whose token is stored, and by exactly one replay of   *)
(* the same request with that token; a replay answered 401 ends the         *)
(* operation with a fatal error and no further Clinic request.              *)
C17_ReauthReplay ==
    \A i \in 1..Len(cl.log) :
        LET e == cl.log[i]
        IN  (e.kind = "request" /\ e.resp = "401") =>
               IF e.replay
               THEN i = Len(cl.log) /\ cl.phase = "done" /\ cl.result = "fatal"
               ELSE /\ IF i = Len(cl.log) THEN cl.phase = "reauth"
                       ELSE /\ cl.log[i + 1].kind = "login"
                            /\ cl.log[i + 1].resp = "200" => cl.log[i + 1].token > e.token
                    /\ (i + 2 <= Len(cl.log) /\ cl.log[i + 1].resp = "200") =>
                          /\ cl.log[i + 2].kind = "request"
                          /\ cl.log[i + 2].req = e.req
                          /\ cl.log[i + 2].replay
                          /\ cl.log[i + 2].token = cl.log[i + 1].token

----------------------------------------------------------------------------
(* Properties of the periodic tasks (specification Spec).                   *)

(* C13: sync_patients_incremental, sync_appointments_incremental and        *)
(* refresh_ghl_token_periodic never raise: whatever the upstream APIs and   *)
(* the database do, the result has status 'success' or 'error'.             *)
C13_TasksNeverRaise ==
    out.op \in Cycles \cup {"refresh_token"} => out.status \in {"success", "error"}

(* refresh_ghl_token raised inside the periodic task and the task returned  *)
(* an error result.                                                         *)
C13_Witness ==
    /\ out.op = "refresh_token"
    /\ out.fault = "refresh_ghl_token"
    /\ out.status = "error"

----------------------------------------------------------------------------
(* Properties of the stored credentials (specification SpecAuth).           *)

(* C18: when a CRM token refresh fails (no row, no refresh token, a status  *)
(* other than 200, a network error, an answer without access token),        *)
(* refresh_ghl_token returns (False, message), the periodic task returns    *)
(* status 'error' and the stored GHLAuthCredentials rows are unchanged.     *)
C18_RefreshFailure ==
    [][(authOut'.op = "refresh" /\ ~authOut'.ok)
          => (authOut'.status = "error" /\ UNCHANGED ghlCreds)]_vars

(* A refresh has failed on a stored row that has a refresh token.           *)
C18_Witness ==
    /\ authOut.op = "refresh"
    /\ ~authOut.ok
    /\ authOut.status = "error"
    /\ ghlCreds # << >>
    /\ ghlCreds[1].refresh_token # EmptyString

(* C19 as stated: after any sequence of Clinic logins, OAuth code exchanges *)
(* and token refreshes there is at most one EPhysioAuth row and at most one *)
(* GHLAuthCredentials row, and the row API calls read is the one written    *)
(* last.                                                                    *)
C19_SingleCredential ==
    /\ Len(ephAuth) <= 1
    /\ Len(ghlCreds) <= 1
    /\ ghlCreds # << >> => FirstCred(ghlCreds) = lastWritten

----------------------------------------------------------------------------
(* Properties of the webhook ingestor and of the dispatch (specification    *)
(* Spec).                                                                   *)

(* C14 as stated: whatever the Clinic System and the repository do, no      *)
(* exception leaves handle_contact_event or handle_appointment_event: the   *)
(* view returns a JSON response.                                            *)
C14_WebhookNeverRaises ==
    out.op \in {"contact_event", "appointment_event"} => out.status # "exception"

C20_UnknownIgnored ==
    [][(out'.op = "webhook" /\ out'.type # "" /\ out'.type \notin RoutedTypes)
          => /\ out'.status = "ignored"
             /\ out'.calls = << >>
             /\ UNCHANGED <<contacts, appts, patients, events, crmContacts, crmAppts>>]_vars

(* An event of an unknown type has been ignored while the tables hold rows. *)
C20_Witness ==
    /\ out.op = "webhook"
    /\ out.type = "OpportunityCreate"
    /\ out.status = "ignored"
    /\ contacts # << >>
    /\ appts # << >>

----------------------------------------------------------------------------
(* Properties of the periodic tasks under Celery (specification SpecSched). *)

(* C21 as stated: in every round the appointment sync reads the ContactSync *)
(* table only after the patient sync of that round has persisted, and the   *)
(* two tasks never run at the same time.                                    *)
C21_PatientsFirst ==
    /\ sch.phase["sync_appointments_incremental"] \in {"read", "persisted", "done"}
          => sch.phase["sync_patients_incremental"] \in {"persisted", "done"}
    /\ ~(Running("sync_patients_incremental") /\ Running("sync_appointments_incremental"))

----------------------------------------------------------------------------
(* Properties of the fallback matcher (specification SpecPhone).            *)

(* C22 as stated: normalize_phone gives "0" and the national digits for the *)
(* forms "+41...", "0041..." and "0..." of one number, so that              *)
(* find_patient_by_phone finds a patient stored in one form when queried    *)
(* with any other.                                                          *)
C22_ThreeForms ==
    px.done =>
        /\ \A f \in Forms : px.norm[f] = Local(px.nat)
        /\ \A sq \in Forms \X Forms : px.found[sq] = 1

----------------------------------------------------------------------------
(* Properties of the contact webhook (specification Spec).                  *)

(* C23 as stated: when a contact event arrives for a ghl_contact_id whose   *)
(* ContactSync row already has an ephysio_patient_id, that row is the       *)
(* match: its link stays, no createPatient request is sent and no row is    *)
(* created, whatever the phone lookup returns.                              *)
C23_PrimaryMatch ==
    [][LET k == ContactByGhl(contacts, out'.arg)
       IN  (out'.op = "contact_event" /\ k # 0 /\ contacts[k].eph # NULL)
              => /\ Len(contacts') = Len(contacts)
                 /\ contacts'[k].eph = contacts[k].eph
                 /\ \A i \in 1..Len(out'.calls) : out'.calls[i].kind # "createPatient"]_vars

----------------------------------------------------------------------------
(* Properties of the CRM contact payload (specification SpecPayload).       *)

(* C24 as stated: the phone of the payload is omitted, or it is "+" and     *)
(* digits only, or at least ten digits: never a non-digit after the         *)
(* optional "+", never an empty national part.                              *)
C24_PhoneWellFormed ==
    (pl.done /\ "phone" \in DOMAIN pl.payload) =>
        LET ph == pl.payload["phone"]
        IN  \/ ph[1] = "+" /\ Len(ph) > 1 /\ isdigit(Drop(ph, 1))
            \/ isdigit(ph) /\ Len(ph) >= 10

(* C25 as stated: dateOfBirth is in the payload only when birth_date is     *)
(* DD.MM.YYYY (two, two and four digits), and then it is YYYY-MM-DD; for    *)
(* every other birth_date it is omitted.                                    *)
C25_BirthDate ==
    pl.done =>
        LET parts == split(pl.birth_date)
            wellFormed == /\ pl.birth_date # NoDate
                          /\ Len(parts) = 3
                          /\ Len(parts[1]) = 2 /\ isdigit(parts[1])
                          /\ Len(parts[2]) = 2 /\ isdigit(parts[2])
                          /\ Len(parts[3]) = 4 /\ isdigit(parts[3])
        IN  IF wellFormed
            THEN /\ "dateOfBirth" \in DOMAIN pl.payload
                 /\ pl.payload["dateOfBirth"]
                        = parts[3] \o <<"-">> \o parts[2] \o <<"-">> \o parts[1]
            ELSE "dateOfBirth" \notin DOMAIN pl.payload

----------------------------------------------------------------------------
(* Properties of the appointment times (specification SpecTime).            *)

(* C26 as stated: every start_time and end_time written to an               *)
(* AppointmentSync row, by the incremental sync, the command or the webhook *)
(* handler, is a timezone-aware datetime in UTC.                            *)
C26_AwareUtc ==
    \A i \in 1..Len(tm.rows) :
        /\ tm.rows[i].start_time.tzinfo = "UTC"
        /\ tm.rows[i].end_time.tzinfo = "UTC"

----------------------------------------------------------------------------
(* Properties of the bulk persistence (specification SpecBulk).             *)

(* C27: each bulk update and each bulk create is atomic: whatever a reader  *)
(* has read, of the rows of one batch it holds the writes of all (those the *)
(* batch did not skip as conflicts) or of none, also when the batch was     *)
(* aborted in the middle.                                                   *)
C27_AtomicBatches ==
    \A c \in BulkCycles : \A kind \in {"bulk_update", "bulk_create"} :
        LET cy == bk.cyc[c]
            B == Range(BatchOf(cy, kind)) \ (IF kind = "bulk_create" THEN cy.ignored ELSE {})
            S == {id \in B : <<c, kind>> \in bk.seen[id].wrote}
        IN  S = {} \/ S = B

(* A bulk create of two rows was aborted after its first row, and a reader  *)
(* has read the table since.                                                *)
C27_Witness ==
    \E c \in BulkCycles :
        /\ bk.cyc[c].fault = "aborted"
        /\ bk.cyc[c].at = "bulk_create"
        /\ Len(bk.cyc[c].cre) = 2
        /\ bk.cyc[c].pos = 1
        /\ bk.fresh
        /\ \A id \in Range(bk.cyc[c].cre) : <<c, "bulk_create">> \notin bk.seen[id].wrote

(* C28: a bulk create that meets a row another writer has created for the   *)
(* same Clinic id raises no error: the cycle goes on and reports success,   *)
(* the other rows of its batch are inserted, and the table holds exactly    *)
(* one row for each Clinic id of the batch.                                 *)
C28_ConflictsIgnored ==
    \A c \in BulkCycles :
        LET cy == bk.cyc[c]
        IN  /\ cy.fault # "IntegrityError"
            /\ (cy.phase = "done" /\ cy.fault = "none") =>
                  /\ cy.status = "success"
                  /\ \A id \in Range(cy.cre) :
                        /\ bk.table[id].present
                        /\ Cardinality({w \in bk.table[id].wrote : w[2] = "bulk_create"}) = 1
                        /\ id \notin cy.ignored => <<c, "bulk_create">> \in bk.table[id].wrote

(* A cycle has finished with success after its bulk create skipped one row  *)
(* that another cycle had created meanwhile, and inserted another.          *)
C28_Witness ==
    \E c \in BulkCycles :
        /\ bk.cyc[c].phase = "done"
        /\ bk.cyc[c].status = "success"
        /\ bk.cyc[c].ignored # {}
        /\ \E id \in Range(bk.cyc[c].cre) :
              id \notin bk.cyc[c].ignored /\ <<c, "bulk_create">> \in bk.table[id].wrote
        /\ \E id \in bk.cyc[c].ignored : \E d \in BulkCycles \ {c} :
              <<d, "bulk_create">> \in bk.table[id].wrote

----------------------------------------------------------------------------
(* Properties of the outbound dispatch (specification Spec).                *)

CrmWrites == {"createContact", "updateContact", "createAppointment"}

(* C29 as stated: every CRM write of an incremental sync task or of a       *)
(* dispatcher command is preceded by its own admission: the handler sent no *)
(* more CRM writes than rate_limiter.wait() returned in it.                 *)
C29_AdmittedWrites ==
    out.op \in Cycles \cup {"sync_contacts_to_ghl", "sync_appointments_to_ghl"}
        => Cardinality({i \in 1..Len(out.calls) : out.calls[i].kind \in CrmWrites}) <= out.waits

----------------------------------------------------------------------------
(* Properties of the RateLimiter under its worker threads (specification    *)
(* SpecRL).                                                                 *)

(* C30: under any interleaving of the workers, at most one of them is       *)
(* between the read and the update of a slot, and it holds the lock; the    *)
(* k-th admission (counted from 0) uses slot k mod Rate, so each slot holds *)
(* the time of the last admission that used it; and the admission Rate      *)
(* places after another is recorded at least 1/Rate second after it.        *)
C30_SlotDiscipline ==
    /\ \A v, w \in 1..Workers :
          (wk[v].pc \in {"sleep", "stamp"} /\ wk[w].pc \in {"sleep", "stamp"}) => v = w
    /\ \A w \in 1..Workers : wk[w].pc \in {"sleep", "stamp"} => rl.lock = w
    /\ rl.index = Len(adm) % Rate
    /\ \A slot \in 0..(Rate - 1) :
          LET ks == {k \in 1..Len(adm) : (k - 1) % Rate = slot}
          IN  rl.last_called[slot] = IF ks = {} THEN 0 ELSE adm[Max(ks)]
    /\ \A k \in 1..Len(adm) :
          k + Rate <= Len(adm) => adm[k + Rate] - adm[k] >= TicksPerInterval

(* All items were admitted: the first two at once, the third after a sleep  *)
(* that ended exactly 1/Rate second after the first admission.              *)
C30_Witness ==
    /\ Len(adm) = Items
    /\ adm[1] = adm[2]
    /\ adm[1 + Rate] - adm[1] = TicksPerInterval
    /\ adm[2 + Rate] - adm[2] >= TicksPerInterval

----------------------------------------------------------------------------
(* Properties of one dispatcher run (specification SpecPoolFair).           *)

StatsTotal ==
    dp.stats["created"] + dp.stats["updated"] + dp.stats["skipped"] + dp.stats["errors"]

(* C31: a dispatcher run over a finite work list, with any number of        *)
(* workers, terminates, and when it has terminated every item of the list   *)
(* carries exactly one outcome and created + updated + skipped + errors is  *)
(* the number of items.                                                     *)
C31_Terminates ==
    (dp.main = "pool") ~>
        /\ dp.main = "summary"
        /\ \A i \in 1..dp.total : dp.item[i] \in StatKeys(dp.cmd)
        /\ \A k \in DOMAIN dp.stats :
              dp.stats[k] = Cardinality({i \in 1..dp.total : dp.item[i] = k})
        /\ StatsTotal = dp.total

(* A run of three items on more than one thread has ended with items in    *)
(* different classes.                                                       *)
C31_Witness ==
    /\ dp.main = "summary"
    /\ dp.total = MaxPoolItems
    /\ dp.workers > 1
    /\ dp.stats["created"] > 0
    /\ dp.stats["errors"] > 0
    /\ StatsTotal = dp.total

----------------------------------------------------------------------------
(* Properties of the source column (specification SpecSource).              *)

(* C32: the source of a ContactSync or AppointmentSync row is the one it    *)
(* was created with: a row created from a CRM webhook keeps source 'ghl'    *)
(* through every later incremental cycle and command run that updates it.   *)
C32_SourceFixed ==
    \A t \in SourceTables, id \in SourceIds :
        sc[t][id].present => sc[t][id].source = sc[t][id].born

----------------------------------------------------------------------------
(* Properties of the cycles over fetched lists (specification SpecList).    *)

(* C33: a fetched patient record without id, and a fetched appointment      *)
(* record without id or without patientId, is skipped: no row is created or *)
(* updated for it and nothing is dispatched for it, so no row carries the   *)
(* text of a missing id.                                                    *)
C33_NoIdSkipped ==
    /\ \A k \in 1..Len(fl.contacts) : fl.contacts[k].eph # py_str(PyNone)
    /\ \A k \in 1..Len(fl.appts) :
          fl.appts[k].ephA # py_str(PyNone) /\ fl.appts[k].eph # py_str(PyNone)

(* C36: within one incremental cycle no ContactSync row receives two        *)
(* createContact calls and no AppointmentSync row two createAppointment     *)
(* calls, whatever the fetched list contains.                               *)
C36_OneCreatePerRow ==
    \A i, j \in 1..Len(fl.res.calls) : fl.res.calls[i] = fl.res.calls[j] => i = j

(* C37: the `created` count of the result of a cycle is the number of rows  *)
(* the cycle inserted, and `updated` is the number of distinct rows it      *)
(* updated.                                                                 *)
C37_CountsExact ==
    /\ fl.res.created = fl.res.inserted
    /\ fl.res.updated = Cardinality(fl.res.updRows)

----------------------------------------------------------------------------
(* Further properties of the Sync-State Repository (specification Spec).    *)

(* C34: when sync_contact finds another ContactSync row with the same phone *)
(* and a CRM id, it sends updateContact to that id, and when the update     *)
(* succeeds the dispatched row ends with that id as its ghl_contact_id and  *)
(* the item is classified 'updated'.                                        *)
C34_TakesOverId ==
    out.op = "sync_contacts_to_ghl" =>
        \A i \in 1..Len(out.calls) :
            (out.calls[i].kind = "updateContact" /\ out.calls[i].res = "updated") =>
                /\ contacts[out.calls[i].pk].ghl = out.calls[i].contact
                /\ out.calls[i].st = "updated"

----------------------------------------------------------------------------
(* A further property of the Clinic client (specification SpecClinic).      *)

(* C35: the request replayed after a re-authentication is the request that  *)
(* was answered 401: same method, URL, body and query parameters, for every *)
(* Clinic operation, create_ephysio_appointment included.                   *)
C35_SameRequest ==
    \A i \in 1..Len(cl.log) :
        (cl.log[i].kind = "request" /\ cl.log[i].replay) =>
            \E j \in 1..(i - 1) :
                /\ cl.log[j].kind = "request"
                /\ ~cl.log[j].replay
                /\ cl.log[j].resp = "401"
                /\ cl.log[j].req = cl.log[i].req
                /\ cl.log[j].sent = cl.log[i].sent

----------------------------------------------------------------------------
(* Further properties of the Sync-State Repository under webhook events     *)
(* and cycles (specification Spec).                                         *)

(* C38: an appointment that came by CRM webhook and was created in the      *)
(* Clinic System (its row holds ghl_appointment_id and                      *)
(* ephysio_appointment_id) is recognised by every later appointment cycle   *)
(* that fetches it: the cycle updates that row, the event still has one row *)
(* and no createAppointment is sent for it.                                 *)
C38_NoEcho ==
    [][\A k \in 1..Len(appts) :
          ( /\ appts[k].source = "ghl"
            /\ appts[k].ghlA # NULL
            /\ appts[k].ephA # NULL
            /\ events[appts[k].ephA] # NULL
            /\ out'.op = "appointments"
            /\ out'.status = "success" ) =>
              /\ appts[k].ephA \in Range(out'.updated)
              /\ appts[k].ephA \notin Range(out'.created)
              /\ appts'[k].ephA = appts[k].ephA
              /\ appts'[k].ghlA = appts[k].ghlA
              /\ {j \in 1..Len(appts') : appts'[j].ephA = appts[k].ephA} = {k}
              /\ \A i \in 1..Len(out'.calls) :
                    ~(out'.calls[i].kind = "createAppointment" /\ out'.calls[i].pk = k)]_vars

(* A cycle has updated the row of an appointment that came by webhook and   *)
(* has both ids.                                                            *)
C38_Witness ==
    /\ out.op = "appointments"
    /\ out.status = "success"
    /\ \E k \in 1..Len(appts) :
          /\ appts[k].source = "ghl"
          /\ appts[k].ghlA # NULL
          /\ appts[k].ephA # NULL
          /\ appts[k].ephA \in Range(out.updated)

(* C39: in every reachable state an AppointmentSync row with a non-null     *)
(* ghl_contact_id carries the ghl_contact_id of the ContactSync row that    *)
(* has the same ephysio_patient_id.                                         *)
C39_DenormalizedCopy ==
    \A k \in 1..Len(appts) :
        appts[k].ghl # NULL =>
            \E c \in 1..Len(contacts) :
                /\ contacts[c].eph = appts[k].eph
                /\ contacts[c].ghl = appts[k].ghl

(* C40: once the ephysio_patient_id or the ghl_contact_id of a ContactSync  *)
(* row is non-null, no cycle, dispatcher run or webhook event changes it to *)
(* another value or back to null.                                           *)
C40_LinkStable ==
    [][\A k \in 1..Len(contacts) :
          /\ contacts[k].eph # NULL => contacts'[k].eph = contacts[k].eph
          /\ contacts[k].ghl # NULL => contacts'[k].ghl = contacts[k].ghl]_vars

====
